---- MODULE Spec2Model ----
(***************************************************************************)
(* The DAP session engine of wayfind: the canonical session state record,  *)
(* the DAP client (sequence counter, writer, response and event tables),   *)
(* its receiver thread, and the UI commands that drive a session.          *)
(***************************************************************************)
EXTENDS Integers, Sequences, FiniteSets, TLC

\* ------------------------------------------------------------------ bounds
\* Inbound frames all adapters together deliver in one run.
MaxFrames == 2
\* UI commands invoked in one run.
MaxCmds == 2
\* Clients (sessions) launch_debug_session creates in one run.
MaxLaunches == 1
\* Clients that exist in one run, those of a relaunched session included.
MaxClients == 2
\* Thread ids an adapter reports.
MaxThread == 2
\* request_seq values an adapter puts in its responses.
MaxRespSeq == 3
\* Direct callers' send_message calls in the SendSpec specification.
MaxSends == 4

\* The UI tasks that run commands concurrently, and the client ids.
TaskSeq == <<"ui1", "ui2">>
Tasks == {TaskSeq[i] : i \in 1 .. Len(TaskSeq)}
Clients == 1 .. MaxClients

\* ---------------------------------------------------------------- options
\* Rust's Option<T>: None is the empty set, Some(v) the singleton.
None == {}
Some(v) == {v}
IsSome(o) == o # {}
Unwrap(o) == CHOOSE v \in o : TRUE
UnwrapOr(o, d) == IF o = {} THEN d ELSE CHOOSE v \in o : TRUE

\* ------------------------------------------------------------ DAP messages
\* The body of an inbound frame, as far as the engine reads it.
BodyOf(reason, threadId) == [reason |-> reason, threadId |-> threadId]

DAPMessage(type, command, request_seq, success, body, event) ==
    [type |-> type, command |-> command, request_seq |-> request_seq,
     success |-> success, body |-> body, event |-> event]

EventFrame(name, body) == DAPMessage("event", None, None, None, body, Some(name))
ResponseFrame(rs, ok) == DAPMessage("response", None, rs, Some(ok), None, None)
RequestFrame(command) == DAPMessage("request", Some(command), None, None, None, None)

StoppedBodies ==
    {None, Some(BodyOf(None, None))}
        \cup {Some(BodyOf(Some("breakpoint"), Some(i))) : i \in 1 .. MaxThread}

\* What an adapter may put on the wire: the four state events, an event the
\* engine has no reaction to, responses (to any request_seq, or without one)
\* and a reverse request.
InboundFrames ==
    {EventFrame(n, None) : n \in {"initialized", "continued", "terminated", "thread"}}
        \cup {EventFrame("stopped", b) : b \in StoppedBodies}
        \cup {ResponseFrame(Some(k), ok) : k \in 1 .. MaxRespSeq, ok \in BOOLEAN}
        \cup {ResponseFrame(None, TRUE), RequestFrame("runInTerminal")}

IsEvent(msg, name) == msg.type = "event" /\ msg.event = Some(name)

\* ------------------------------------------------------------ state record
NotStarted == [tag |-> "NotStarted", reason |-> "", thread_id |-> 0]
Configuring == [tag |-> "Configuring", reason |-> "", thread_id |-> 0]
Running == [tag |-> "Running", reason |-> "", thread_id |-> 0]
Terminated == [tag |-> "Terminated", reason |-> "", thread_id |-> 0]
Paused(reason, thread_id) == [tag |-> "Paused", reason |-> reason, thread_id |-> thread_id]

\* The reason and thread id stored when a stopped event lacks them.
DefaultReason == "unknown"
DefaultThreadId == 1

\* DebugSessionState::handle_dap_event: the state record after msg.
handle_dap_event(st, msg) ==
    IF msg.type = "event" /\ IsSome(msg.event)
    THEN CASE Unwrap(msg.event) = "initialized" -> Configuring
           [] Unwrap(msg.event) = "continued" -> Running
           [] Unwrap(msg.event) = "stopped" ->
                IF IsSome(msg.body)
                THEN Paused(UnwrapOr(Unwrap(msg.body).reason, DefaultReason),
                            UnwrapOr(Unwrap(msg.body).threadId, DefaultThreadId))
                ELSE st
           [] Unwrap(msg.event) = "terminated" -> Terminated
           [] OTHER -> st
    ELSE st

\* DebugSessionState::handle_configuration_done: the state record after the
\* configurationDone acknowledgment.
handle_configuration_done(st) == Running

\* ----------------------------------------------------------------- UI status
\* The payload emit_status_update hands to the UI: threadId only when the
\* caller gave one, file and line only for a paused status with a threadId
\* whose location lookup succeeded.
StatusPayload(status, seq, thread_id, loc) ==
    [status |-> status, seq |-> seq, threadId |-> thread_id,
     loc |-> IF IsSome(thread_id) /\ status = "paused" THEN loc ELSE None]

\* The top-of-stack location a successful lookup returns.
Location == [file |-> "/a.py", line |-> 25]

\* The seq get_stack_trace_sync stamps on its stackTrace request.
StackTraceSeq == 10000

\* start_receiver's choice of status counter: the one the caller passes, else
\* the client's own.
ReceiverCounter_Own(external) == "client"
ReceiverCounter(external) == IF IsSome(external) THEN "session" ELSE "client"

\* Whether the receiver emits a debug-status for msg, and which.
NeedsStatus(msg) ==
    IsEvent(msg, "terminated") \/ (IsEvent(msg, "stopped") /\ IsSome(msg.body))
ReceiverStatus(msg) ==
    IF IsEvent(msg, "terminated")
    THEN [status |-> "terminated", thread_id |-> None]
    ELSE [status |-> "paused", thread_id |-> Unwrap(msg.body).threadId]

\* ------------------------------------------------------------------ tables
EmptyMap == [k \in {} |-> 0]
MapInsert(tbl, key, val) ==
    [k \in DOMAIN tbl \cup {key} |-> IF k = key THEN val ELSE tbl[k]]
MapRemove_Keep(tbl, key) == tbl
MapRemove(tbl, key) == [k \in DOMAIN tbl \ {key} |-> tbl[k]]

\* The receiver's table dispatch of a decoded frame.
InsertResponse(tbl, msg) ==
    IF msg.type = "response" /\ IsSome(msg.request_seq)
    THEN MapInsert(tbl, Unwrap(msg.request_seq), msg)
    ELSE tbl
AppendEvent(tbl, msg) ==
    IF msg.type = "event" /\ IsSome(msg.event)
    THEN LET n == Unwrap(msg.event)
         IN MapInsert(tbl, n, Append(IF n \in DOMAIN tbl THEN tbl[n] ELSE <<>>, msg))
    ELSE tbl

\* ------------------------------------------------------------- frame codec
\* Bytes are tokens: the header name, a space, the decimal digits, CR, LF,
\* the braces and content of a JSON text, other ASCII (x) and a byte that is
\* not valid UTF-8 (FF).
Digits == <<"0", "1", "2", "3", "4", "5", "6", "7", "8", "9">>
IsDigit(b) == \E i \in 1 .. Len(Digits) : Digits[i] = b
DigitVal(b) == (CHOOSE i \in 1 .. Len(Digits) : Digits[i] = b) - 1

\* format!("{}", n) and str::parse::<usize>.
RECURSIVE ToDigits(_)
ToDigits(n) ==
    IF n < Len(Digits) THEN <<Digits[n + 1]>>
    ELSE ToDigits(n \div Len(Digits)) \o <<Digits[(n % Len(Digits)) + 1]>>
RECURSIVE DigitsVal(_)
DigitsVal(ds) ==
    IF ds = <<>> THEN 0
    ELSE Len(Digits) * DigitsVal(SubSeq(ds, 1, Len(ds) - 1)) + DigitVal(ds[Len(ds)])
ParseUsize(ds) ==
    IF ds = <<>> \/ \E i \in 1 .. Len(ds) : ~IsDigit(ds[i]) THEN None
    ELSE Some(DigitsVal(ds))

\* str::trim, str::to_lowercase and str::lines, on tokens.
RECURSIVE Trim(_)
Trim(bs) ==
    IF bs = <<>> THEN bs
    ELSE IF Head(bs) = " " THEN Trim(Tail(bs))
    ELSE IF bs[Len(bs)] = " " THEN Trim(SubSeq(bs, 1, Len(bs) - 1))
    ELSE bs
ToLower(b) == IF b = "Content-Length:" THEN "content-length:" ELSE b
StripCR(bs) ==
    IF bs # <<>> /\ bs[Len(bs)] = "CR" THEN SubSeq(bs, 1, Len(bs) - 1) ELSE bs
RECURSIVE SplitLines(_)
SplitLines(bs) ==
    IF bs = <<>> THEN <<>>
    ELSE LET nl == {i \in 1 .. Len(bs) : bs[i] = "LF"}
         IN IF nl = {} THEN <<StripCR(bs)>>
            ELSE LET i == CHOOSE k \in nl : \A m \in nl : k <= m
                 IN <<StripCR(SubSeq(bs, 1, i - 1))>>
                        \o SplitLines(SubSeq(bs, i + 1, Len(bs)))

\* The header send_message writes for a body of n bytes, and the receiver's
\* test for the end of a header and its parse of Content-Length.
FrameHeader(n) == <<"Content-Length:", " ">> \o ToDigits(n) \o <<"CR", "LF", "CR", "LF">>
EndsHeader(bs) ==
    Len(bs) >= 4 /\ SubSeq(bs, Len(bs) - 3, Len(bs)) = <<"CR", "LF", "CR", "LF">>
ContentLength(header) ==
    LET ls == SplitLines(header)
        cl == {i \in 1 .. Len(ls) : ls[i] # <<>> /\ ToLower(ls[i][1]) = "content-length:"}
    IN IF cl = {} THEN None
       ELSE ParseUsize(Trim(Tail(ls[CHOOSE k \in cl : \A m \in cl : k <= m])))

\* The messages of the byte-level runs, and serde_json between a message and
\* its text: each message is written as an object with its own content. The
\* reason of the last one (U+00E9) is a single character of two bytes, C3 A9,
\* and its text is ten bytes long.
CodecMsgs ==
    << EventFrame("initialized", None),
       EventFrame("stopped", Some(BodyOf(Some("breakpoint"), Some(1)))),
       ResponseFrame(Some(1), TRUE),
       EventFrame("stopped", Some(BodyOf(Some("U+00E9"), Some(2)))) >>
CodecTexts ==
    << <<"j">>, <<"j", "j">>, <<"j", "j", "j">>,
       <<"j", "j", "j", "j", "j", "j", "C3", "A9">> >>
ToJson(msg) ==
    <<"{">> \o CodecTexts[CHOOSE i \in 1 .. Len(CodecMsgs) : CodecMsgs[i] = msg] \o <<"}">>
\* String::len, the length of a text in bytes (a continuation byte is no
\* character of its own).
ByteLen_Chars(bs) == Cardinality({i \in 1 .. Len(bs) : bs[i] # "A9"})
ByteLen(bs) == Len(bs)
Utf8Ok(bs) == \A i \in 1 .. Len(bs) : bs[i] # "FF"
FromStr_Lenient(bs) == Some(CodecMsgs[1])
FromStr(bs) ==
    LET known == {i \in 1 .. Len(CodecMsgs) : bs = <<"{">> \o CodecTexts[i] \o <<"}">>}
    IN IF known = {} THEN None ELSE Some(CodecMsgs[CHOOSE i \in known : TRUE])
\* The receiver's decoding of a body: String::from_utf8, then from_str.
DecodeBody(bs) == IF Utf8Ok(bs) THEN FromStr(bs) ELSE None

\* --------------------------------------------------------------- variables
VARIABLES
    state,              \* DebugSessionState.state
    status_seq,         \* DebugSessionState.status_seq
    debugger_type,      \* DebugSessionState.debugger_type
    current_thread_id,  \* DebugSessionState.current_thread_id
    client,             \* DebugSessionState.client: the stored client, if any
    process,            \* DebugSessionState.process: the stored child, named by its client
    lock,               \* the task holding the DebugSessionState.client mutex
    next_seq,           \* per client: DAPClient.next_seq
    client_status_seq,  \* per client: DAPClient.status_seq
    wlock,              \* per client: the task holding the writer mutex
    wire,               \* per client: the chunks written to the transport
    responses,          \* per client: DAPClient.responses
    events,             \* per client: DAPClient.events
    rx,                 \* per client: the receiver thread
    side,               \* the frames get_stack_trace_sync wrote on its own connections
    ui,                 \* the debug-status payloads handed to the UI, in order
    lost,               \* the emit calls of emit_status_update that failed
    tk,                 \* per UI task: the command it runs and where it is
    nread,              \* inbound frames read so far
    ncmd,               \* commands invoked so far
    launches,           \* clients created so far
    killed,             \* the clients whose adapter process has been killed
    net,                \* the receiver's connection seen byte by byte
    chan                \* per client, the fan-out channel of decoded messages

sessionVars == <<state, status_seq, debugger_type, current_thread_id, client, process, lock>>
clientVars == <<next_seq, client_status_seq, wlock, wire, responses, events>>
vars == <<state, status_seq, debugger_type, current_thread_id,
          client, process, lock, next_seq,
          client_status_seq, wlock, wire, responses, events, rx, side, ui, lost,
          tk, nread, ncmd, launches, killed, net, chan>>

NoFrame == DAPMessage("none", None, None, None, None, None)
\* The unbounded channel DAPClient::new creates: its receiving end is alive
\* or dropped, and the messages sent and not yet taken are queued.
NoChannel == [open |-> FALSE, queue |-> <<>>]
NewChannel == [open |-> TRUE, queue |-> <<>>]
\* UnboundedSender::send: the message is queued unless the receiving end is
\* gone; the receiver loop ignores the error.
ChannelSend(ch, msg) == IF ch.open THEN [ch EXCEPT !.queue = Append(@, msg)] ELSE ch
\* No bytes on the way, none read.
IdleNet ==
    [pending |-> <<>>, buf |-> <<>>, hdr |-> <<>>, need |-> 0, phase |-> "header",
     frames |-> <<>>, got |-> <<>>]
IdleReceiver ==
    [pc |-> "none", msg |-> NoFrame, ctr |-> "session", sseq |-> 0,
     prev |-> NotStarted, out |-> <<>>]
IdleTask ==
    [pc |-> "idle", cmd |-> "", cid |-> 0, req |-> "", seq |-> 0,
     expired |-> FALSE, res |-> None, sseq |-> 0, status |-> "", next |-> "",
     intime |-> FALSE, dtype |-> None, proc |-> None, thread |-> None,
     expr |-> <<>>]

\* DebugSessionState::new, and DAPClient::new for every client to come.
Init ==
    /\ state = NotStarted
    /\ status_seq = 0
    /\ debugger_type = None
    /\ current_thread_id = None
    /\ client = None
    /\ process = None
    /\ lock = None
    /\ next_seq = [c \in Clients |-> 1]
    /\ client_status_seq = [c \in Clients |-> 0]
    /\ wlock = [c \in Clients |-> None]
    /\ wire = [c \in Clients |-> <<>>]
    /\ responses = [c \in Clients |-> EmptyMap]
    /\ events = [c \in Clients |-> EmptyMap]
    /\ rx = [c \in Clients |-> IdleReceiver]
    /\ side = <<>>
    /\ ui = <<>>
    /\ lost = 0
    /\ tk = [t \in Tasks |-> IdleTask]
    /\ nread = 0
    /\ ncmd = 0
    /\ launches = 0
    /\ killed = {}
    /\ net = IdleNet
    /\ chan = [c \in Clients |-> NoChannel]

\* History of a wait, kept for the statements about it: whether the awaited
\* response has been in client c's table tbl while the timeout had not elapsed.
InTime(task, c, tbl) ==
    \/ task.intime
    \/ /\ task.pc \in {"wait", "poll"}
       /\ task.cid = c
       /\ ~task.expired
       /\ task.seq \in DOMAIN tbl

\* The current thread id after the receiver has processed frame msg: set by a
\* stopped event to the thread it names, cleared by continued and terminated.
CurrentThreadAfter(cur, msg) ==
    CASE IsEvent(msg, "stopped") ->
           IF IsSome(msg.body) THEN Unwrap(msg.body).threadId ELSE None
      [] IsEvent(msg, "continued") \/ IsEvent(msg, "terminated") -> None
      [] OTHER -> cur

\* The body of an output event, and what the receiver hands to
\* app_handle.emit for a frame on its own (not through emit_status_update):
\* the text of an output event of category stdout or stderr.
OutputBody(category, output) == [category |-> category, output |-> output]
UiEvent(name, payload) == [event |-> name, payload |-> payload]
OutputForward_All(msg) ==
    IF IsEvent(msg, "output") /\ IsSome(msg.body) /\ IsSome(Unwrap(msg.body).output)
    THEN <<UiEvent("program-output", Unwrap(Unwrap(msg.body).output))>>
    ELSE <<>>
OutputForward(msg) ==
    IF IsEvent(msg, "output") /\ IsSome(msg.body)
    THEN LET b == Unwrap(msg.body)
         IN IF b.category \in {Some("stdout"), Some("stderr")} /\ IsSome(b.output)
            THEN <<UiEvent(IF b.category = Some("stderr") THEN "program-error"
                           ELSE "program-output", Unwrap(b.output))>>
            ELSE <<>>
    ELSE <<>>

\* ------------------------------------------------------------ the receiver
\* One pass of the receiver loop up to the state update: a frame is read and
\* decoded, and handle_dap_event applies it to the state record.
ReadFrame(c, f) ==
    /\ rx[c].pc = "read"
    /\ state' = handle_dap_event(state, f)
    /\ current_thread_id' = CurrentThreadAfter(current_thread_id, f)
    /\ rx' = [rx EXCEPT ![c] = [@ EXCEPT
                !.pc = IF NeedsStatus(f) THEN "fetch" ELSE "dispatch",
                !.msg = f, !.prev = state, !.out = OutputForward(f)]]

R_ReadFrom(c, frames) ==
    /\ nread < MaxFrames
    /\ \E f \in frames : ReadFrame(c, f)
    /\ nread' = nread + 1
    /\ UNCHANGED <<status_seq, debugger_type, client, process, lock, clientVars, side, ui,
                   lost, tk, ncmd, launches, killed, net, chan>>

R_Read(c) == R_ReadFrom(c, InboundFrames)

\* The read fails (end of file or another error): the thread returns.
R_Eof(c) ==
    /\ rx[c].pc = "read"
    /\ rx' = [rx EXCEPT ![c].pc = "exited"]
    /\ UNCHANGED <<sessionVars, clientVars, side, ui, lost, tk, nread, ncmd, launches,
                   killed, net, chan>>

\* emit_status_update, first half: fetch_add on the receiver's status counter.
R_FetchAdd(c) ==
    /\ rx[c].pc = "fetch"
    /\ IF rx[c].ctr = "session"
       THEN /\ rx' = [rx EXCEPT ![c].pc = "emit", ![c].sseq = status_seq]
            /\ status_seq' = status_seq + 1
            /\ UNCHANGED client_status_seq
       ELSE /\ rx' = [rx EXCEPT ![c].pc = "emit", ![c].sseq = client_status_seq[c]]
            /\ client_status_seq' = [client_status_seq EXCEPT ![c] = @ + 1]
            /\ UNCHANGED status_seq
    /\ UNCHANGED <<state, debugger_type, current_thread_id, client, process, lock,
                   next_seq, wlock, wire, responses, events, side, ui, lost, tk, nread,
                   ncmd, launches, killed, net, chan>>

\* emit_status_update, second half: for a paused status with a thread id the
\* location lookup (get_stack_trace_sync connects on its own, writes one
\* stackTrace request and waits up to two seconds), then the emit, whose
\* failure the receiver ignores.
R_Emit(c) ==
    /\ rx[c].pc = "emit"
    /\ LET st == ReceiverStatus(rx[c].msg)
           lookup == st.status = "paused" /\ IsSome(st.thread_id)
       IN \E connected \in BOOLEAN, loc \in {None, Some(Location)}, ok \in BOOLEAN :
            /\ lookup \/ (~connected /\ loc = None)
            /\ connected \/ loc = None
            /\ side' = IF connected
                       THEN Append(side, [seq |-> StackTraceSeq, command |-> "stackTrace",
                                          threadId |-> Unwrap(st.thread_id), cid |-> c])
                       ELSE side
            /\ LET m == StatusPayload(st.status, rx[c].sseq, st.thread_id, loc)
               IN /\ ui' = IF ok THEN Append(ui, m) ELSE ui
                  /\ lost' = IF ok THEN lost ELSE lost + 1
                  /\ rx' = [rx EXCEPT ![c].pc = "dispatch",
                                      ![c].out = IF ok THEN Append(@, m) ELSE @]
    /\ UNCHANGED <<sessionVars, clientVars, tk, nread, ncmd, launches, killed, net, chan>>

\* The rest of the pass: the frame goes into the response table or its event
\* queue, a copy is sent on the fan-out channel, and the loop starts over.
R_Dispatch(c) ==
    /\ rx[c].pc = "dispatch"
    /\ responses' = [responses EXCEPT ![c] = InsertResponse(@, rx[c].msg)]
    /\ events' = [events EXCEPT ![c] = AppendEvent(@, rx[c].msg)]
    /\ chan' = [chan EXCEPT ![c] = ChannelSend(@, rx[c].msg)]
    /\ rx' = [rx EXCEPT ![c] = [IdleReceiver EXCEPT !.pc = "read", !.ctr = rx[c].ctr]]
    /\ tk' = [t \in Tasks |-> [tk[t] EXCEPT !.intime = InTime(tk[t], c, responses'[c])]]
    /\ UNCHANGED <<sessionVars, next_seq, client_status_seq, wlock, wire, side, ui, lost,
                   nread, ncmd, launches, killed, net>>

Receiver(c) == R_Read(c) \/ R_Eof(c) \/ R_FetchAdd(c) \/ R_Emit(c) \/ R_Dispatch(c)

\* ------------------------------------------------------------- UI commands
\* The adapter commands of the UI surface that take the stored client, send
\* one request and wait for its response, and the DAP command each sends.
AdapterCmds == {"configuration_done", "continue_debug"}
\* All of them, and the two that take their thread id from the session.
UiCmds ==
    {"set_breakpoints", "configuration_done", "get_paused_location", "continue_debug",
     "step_in", "step_over", "step_out", "evaluate_expression", "get_call_stack"}
StepCmds == {"step_in", "step_over"}
\* The request a command sends first.
DapCommand(cmd) ==
    CASE cmd = "configuration_done" -> "configurationDone"
      [] cmd = "continue_debug" -> "continue"
      [] cmd = "set_breakpoints" -> "setBreakpoints"
      [] cmd = "terminate_program" -> "terminate"
      [] cmd = "step_in" -> "stepIn"
      [] cmd = "step_over" -> "next"
      [] cmd = "step_out" -> "stepOut"
      [] cmd \in {"get_paused_location", "get_call_stack", "evaluate_expression"} -> "stackTrace"
      [] OTHER -> "request"

\* A piece of a written request. threadId is the thread id the engine itself
\* puts into the arguments, expression the text evaluate is sent with (the
\* other arguments the UI supplies are left out).
Chunk(kind, seq, command) ==
    [kind |-> kind, seq |-> seq, command |-> command, threadId |-> None,
     expression |-> <<>>]
ThreadChunk(kind, seq, command, thread) ==
    [Chunk(kind, seq, command) EXCEPT !.threadId = thread]
\* The chunk task record r writes for its request.
RequestChunk(kind, r) ==
    [ThreadChunk(kind, r.seq, r.req, r.thread) EXCEPT
        !.expression = IF r.req = "evaluate" THEN r.expr ELSE <<>>]

\* Texts are sequences of pieces no one of which starts another: the word
\* expr, the rest of the word expression, a space, two dashes, a name.
StartsWith(e, p) == Len(e) >= Len(p) /\ SubSeq(e, 1, Len(p)) = p
ExprWord == <<"expr", " ">>
ExpressionWord == <<"expr", "ession", " ">>
ExprPrefix == <<"expr", " ", "--", " ">>
\* evaluate_expression's adjustment of the expression to the recorded
\* adapter kind.
RewriteExpression(kind, e) ==
    IF kind = Some("rust")
    THEN IF ~StartsWith(e, ExprWord) /\ ~StartsWith(e, ExpressionWord)
         THEN ExprPrefix \o e
         ELSE e
    ELSE e

\* client_lock.as_ref().ok_or("No active debug session"): the client a
\* command works with, or none and the command returns that error.
ClientOrError_First(cl) == IF cl = None THEN Some(1) ELSE cl
ClientOrError(cl) == cl

\* step_in and step_over: the thread id of the request is the session's
\* current thread id; without one the command returns an error.
StepThreadId_Default(cur) == IF cur = None THEN Some(DefaultThreadId) ELSE cur
StepThreadId_First(cur) == IF cur = None THEN None ELSE Some(1)
StepThreadId(cur) == cur
\* evaluate_expression asks for the stack of thread 1.
EvaluateThreadId == 1
RequestThread(cmd, cur) ==
    IF cmd \in StepCmds THEN StepThreadId(cur)
    ELSE IF cmd = "evaluate_expression" THEN Some(EvaluateThreadId)
    ELSE None

\* What a command of the UI surface returns after the wait for its (last)
\* response: an error when the wait timed out and, for the commands that
\* return the response's body, when there is no body; else its confirmation
\* or result.
CommandResult_Checked(cmd, res) ==
    IF res = None \/ Unwrap(res).success = Some(FALSE) THEN "err" ELSE "ok"
CommandResult(cmd, res) ==
    IF res = None THEN "err"
    ELSE IF cmd \in {"set_breakpoints", "evaluate_expression", "get_call_stack"}
              /\ Unwrap(res).body = None
    THEN "err"
    ELSE "ok"

\* The runtime hands a new command to a free task; the tasks are
\* interchangeable, so it is always the first free one.
CanStart(t) ==
    /\ tk[t].pc = "idle"
    /\ \A i, j \in 1 .. Len(TaskSeq) :
         (TaskSeq[j] = t /\ i < j) => tk[TaskSeq[i]].pc # "idle"

\* A UI task is handed command cmd of the UI surface.
InvokeCmd(t, cmd) ==
    /\ CanStart(t)
    /\ ncmd < MaxCmds
    /\ tk' = [tk EXCEPT ![t] = [IdleTask EXCEPT !.pc = "lock", !.cmd = cmd]]
    /\ ncmd' = ncmd + 1
    /\ UNCHANGED <<sessionVars, clientVars, rx, side, ui, lost, nread, launches, killed,
                   net, chan>>

Invoke(t) == \E cmd \in AdapterCmds : InvokeCmd(t, cmd)

\* terminate_program begins: it reads the adapter kind, then asks for the client.
InvokeTerminate(t) ==
    /\ CanStart(t)
    /\ ncmd < MaxCmds
    /\ tk' = [tk EXCEPT ![t] = [IdleTask EXCEPT !.pc = "lock",
                !.cmd = "terminate_program", !.dtype = debugger_type,
                !.proc = process]]
    /\ ncmd' = ncmd + 1
    /\ UNCHANGED <<sessionVars, clientVars, rx, side, ui, lost, nread, launches, killed,
                   net, chan>>

\* launch_debug_session up to the connected client: the adapter kind is
\* recorded first; finding a port, spawning the adapter or connecting may fail.
LaunchCall(t, limit) ==
    /\ CanStart(t)
    /\ ncmd < MaxCmds
    /\ launches < limit
    /\ \E engine \in {"python", "rust"}, ok \in BOOLEAN :
         /\ debugger_type' = Some(engine)
         /\ IF ok
            THEN /\ tk' = [tk EXCEPT ![t] = [IdleTask EXCEPT !.pc = "recv",
                            !.cmd = "launch_debug_session", !.cid = launches + 1,
                            !.dtype = Some(engine)]]
                 /\ launches' = launches + 1
                 /\ chan' = [chan EXCEPT ![launches + 1] = NewChannel]
            ELSE UNCHANGED <<tk, launches, chan>>
    /\ ncmd' = ncmd + 1
    /\ UNCHANGED <<state, status_seq, current_thread_id, client, process, lock,
                   clientVars, rx, side, ui, lost, nread, killed, net>>

InvokeLaunch(t) == LaunchCall(t, MaxLaunches)

\* launch_debug_session: start_receiver with the session's status counter.
StartReceiver(t) ==
    /\ tk[t].pc = "recv"
    /\ rx' = [rx EXCEPT ![tk[t].cid] =
                [IdleReceiver EXCEPT !.pc = "read", !.ctr = ReceiverCounter(Some("status_seq"))]]
    /\ tk' = [tk EXCEPT ![t].pc = "assign", ![t].req = "initialize"]
    /\ UNCHANGED <<sessionVars, clientVars, side, ui, lost, nread, ncmd, launches, killed,
                   net, chan>>

\* debug_state.client.lock().await, and what the command finds in it; step_in
\* and step_over then read the current thread id.
AcquireClient(t) ==
    /\ tk[t].pc = "lock"
    /\ lock = None
    /\ LET found == ClientOrError(client)
           thread == RequestThread(tk[t].cmd, current_thread_id)
       IN IF found = None
          THEN IF tk[t].cmd = "terminate_program"
               THEN /\ lock' = Some(t)
                    /\ tk' = [tk EXCEPT ![t].pc = "fetch", ![t].status = "terminated",
                                ![t].next = "kill"]
               ELSE /\ lock' = None
                    /\ tk' = [tk EXCEPT ![t] = IdleTask]
          ELSE IF tk[t].cmd = "terminate_program" /\ tk[t].dtype = Some("rust")
          THEN /\ lock' = Some(t)
               /\ tk' = [tk EXCEPT ![t].pc = "fetch", ![t].cid = Unwrap(found),
                           ![t].status = "terminated", ![t].next = "assign",
                           ![t].req = "terminate"]
          ELSE IF tk[t].cmd \in StepCmds /\ thread = None
          THEN /\ lock' = None
               /\ tk' = [tk EXCEPT ![t] = IdleTask]
          ELSE /\ lock' = Some(t)
               /\ tk' = [tk EXCEPT ![t].pc = "assign", ![t].cid = Unwrap(found),
                           ![t].req = DapCommand(tk[t].cmd), ![t].thread = thread,
                           ![t].expr = IF tk[t].cmd = "evaluate_expression"
                                       THEN RewriteExpression(debugger_type, @)
                                       ELSE @]
    /\ UNCHANGED <<state, status_seq, debugger_type, current_thread_id, client, process,
                   clientVars, rx, side, ui, lost, nread, ncmd, launches, killed, net, chan>>

\* send_message, first block: the seq is read and incremented under the
\* next_seq mutex, which is released at once.
SendAssign(t) ==
    /\ tk[t].pc = "assign"
    /\ tk' = [tk EXCEPT ![t].pc = "write", ![t].seq = next_seq[tk[t].cid]]
    /\ next_seq' = [next_seq EXCEPT ![tk[t].cid] = @ + 1]
    /\ UNCHANGED <<sessionVars, client_status_seq, wlock, wire, responses, events, rx,
                   side, ui, lost, nread, ncmd, launches, killed, net, chan>>

\* send_message, second block: the writer mutex is taken and the header written.
SendHeader(t) ==
    /\ tk[t].pc = "write"
    /\ wlock[tk[t].cid] = None
    /\ wlock' = [wlock EXCEPT ![tk[t].cid] = Some(t)]
    /\ wire' = [wire EXCEPT ![tk[t].cid] = Append(@, RequestChunk("header", tk[t]))]
    /\ tk' = [tk EXCEPT ![t].pc = "body"]
    /\ UNCHANGED <<sessionVars, next_seq, client_status_seq, responses, events, rx, side,
                   ui, lost, nread, ncmd, launches, killed, net, chan>>

\* send_message, the rest: the body is written and flushed, the writer mutex
\* released and the seq returned. attach returns after its delay without
\* waiting; every other request goes on to wait_for_response, whose first
\* comparison of the elapsed time with the timeout passes.
AwaitsResponse_All(req) == TRUE
AwaitsResponse(req) == req # "attach"
SendBody(t) ==
    /\ tk[t].pc = "body"
    /\ wlock' = [wlock EXCEPT ![tk[t].cid] = None]
    /\ wire' = [wire EXCEPT ![tk[t].cid] = Append(@, RequestChunk("body", tk[t]))]
    /\ tk' = [tk EXCEPT ![t] =
                IF tk[t].cmd = "send_message" THEN IdleTask
                ELSE IF ~AwaitsResponse(tk[t].req) THEN [@ EXCEPT !.pc = "store"]
                ELSE [@ EXCEPT !.pc = "poll", !.expired = FALSE,
                               !.intime = tk[t].seq \in DOMAIN responses[tk[t].cid]]]
    /\ UNCHANGED <<sessionVars, next_seq, client_status_seq, responses, events, rx, side,
                   ui, lost, nread, ncmd, launches, killed, net, chan>>

\* wait_for_response, loop head: the elapsed time is compared with the timeout.
WaitCheck(t) ==
    /\ tk[t].pc = "wait"
    /\ tk' = [tk EXCEPT ![t] = IF tk[t].expired
                               THEN [@ EXCEPT !.pc = "resp", !.res = None]
                               ELSE [@ EXCEPT !.pc = "poll"]]
    /\ UNCHANGED <<sessionVars, clientVars, rx, side, ui, lost, nread, ncmd, launches,
                   killed, net, chan>>

\* wait_for_response, loop body: responses.remove(&seq); a miss sleeps and
\* goes back to the loop head.
WaitPoll(t) ==
    /\ tk[t].pc = "poll"
    /\ LET c == tk[t].cid
           s == tk[t].seq
       IN IF s \in DOMAIN responses[c]
          THEN /\ tk' = [tk EXCEPT ![t].pc = "resp", ![t].res = Some(responses[c][s])]
               /\ responses' = [responses EXCEPT ![c] = MapRemove(@, s)]
          ELSE /\ tk' = [tk EXCEPT ![t].pc = "wait"]
               /\ UNCHANGED responses
    /\ UNCHANGED <<sessionVars, next_seq, client_status_seq, wlock, wire, events, rx,
                   side, ui, lost, nread, ncmd, launches, killed, net, chan>>

\* The timeout of a wait elapses.
Expire(t) ==
    /\ tk[t].pc \in {"wait", "poll"}
    /\ ~tk[t].expired
    /\ tk' = [tk EXCEPT ![t].expired = TRUE]
    /\ UNCHANGED <<sessionVars, clientVars, rx, side, ui, lost, nread, ncmd, launches,
                   killed, net, chan>>

\* configuration_done after its wait: an error (no response) returns before
\* the state update, a response of either outcome is followed by it.
ConfigurationDoneOutcome_Always(st, res) == handle_configuration_done(st)
ConfigurationDoneOutcome(st, res) ==
    IF res = None THEN st ELSE handle_configuration_done(st)

\* launch_debug_session returns: the receiving end of its client's channel,
\* which it never handed on, is dropped with everything queued.
RxDropped(t) ==
    IF tk[t].cmd = "launch_debug_session" THEN [chan EXCEPT ![tk[t].cid] = NoChannel]
    ELSE chan

\* What each command does with the outcome of its wait; evaluate_expression
\* sends its evaluate request whatever came of its stackTrace request.
HandleResponse(t) ==
    /\ tk[t].pc = "resp"
    /\ LET r == tk[t]
           timeout == r.res = None
       IN CASE r.cmd = "launch_debug_session" /\ r.req = "initialize" ->
                 /\ tk' = [tk EXCEPT ![t] =
                             IF timeout THEN IdleTask
                             ELSE [@ EXCEPT !.pc = "assign", !.res = None,
                                     !.req = IF r.dtype = Some("rust") THEN "launch"
                                             ELSE "attach"]]
                 /\ UNCHANGED <<state, lock>>
            [] r.cmd = "launch_debug_session" /\ r.req = "launch" ->
                 /\ tk' = [tk EXCEPT ![t] =
                             IF timeout \/ Unwrap(r.res).success = Some(FALSE)
                             THEN IdleTask
                             ELSE [@ EXCEPT !.pc = "store", !.res = None]]
                 /\ UNCHANGED <<state, lock>>
            [] r.cmd = "configuration_done" ->
                 /\ state' = ConfigurationDoneOutcome(state, r.res)
                 /\ tk' = [tk EXCEPT ![t] = IdleTask]
                 /\ lock' = None
            [] r.cmd = "evaluate_expression" /\ r.req = "stackTrace" ->
                 /\ tk' = [tk EXCEPT ![t].pc = "assign", ![t].res = None,
                             ![t].req = "evaluate", ![t].thread = None]
                 /\ UNCHANGED <<state, lock>>
            [] r.cmd = "terminate_program" ->
                 IF r.dtype # Some("rust") /\ timeout
                 THEN /\ tk' = [tk EXCEPT ![t].pc = "fetch", ![t].status = "terminated",
                                  ![t].next = "kill"]
                      /\ UNCHANGED <<state, lock>>
                 ELSE /\ tk' = [tk EXCEPT ![t].pc = "kill"]
                      /\ lock' = None
                      /\ UNCHANGED state
            [] OTHER ->
                 /\ tk' = [tk EXCEPT ![t] = IdleTask]
                 /\ lock' = None
                 /\ UNCHANGED state
    /\ chan' = IF tk'[t].pc = "idle" THEN RxDropped(t) ELSE chan
    /\ UNCHANGED <<status_seq, debugger_type, current_thread_id, client, process,
                   clientVars, rx, side, ui, lost, nread, ncmd, launches, killed, net>>

\* launch_debug_session stores the client, then the child process.
StoreClient(t) ==
    /\ tk[t].pc = "store"
    /\ lock = None
    /\ client' = Some(tk[t].cid)
    /\ tk' = [tk EXCEPT ![t].pc = "proc"]
    /\ UNCHANGED <<state, status_seq, debugger_type, current_thread_id, process, lock,
                   clientVars, rx, side, ui, lost, nread, ncmd, launches, killed, net,
                   chan>>

StoreProcess(t) ==
    /\ tk[t].pc = "proc"
    /\ process' = Some(tk[t].cid)
    /\ tk' = [tk EXCEPT ![t].pc = "fetch", ![t].status = "initializing",
                ![t].next = "done"]
    /\ UNCHANGED <<state, status_seq, debugger_type, current_thread_id, client, lock,
                   clientVars, rx, side, ui, lost, nread, ncmd, launches, killed, net,
                   chan>>

\* emit_status_update called by a command, first half: fetch_add on the
\* session's status counter.
FetchAdd(t) ==
    /\ tk[t].pc = "fetch"
    /\ tk' = [tk EXCEPT ![t].pc = "emit", ![t].sseq = status_seq]
    /\ status_seq' = status_seq + 1
    /\ UNCHANGED <<state, debugger_type, current_thread_id, client, process, lock,
                   clientVars, rx, side, ui, lost, nread, ncmd, launches, killed, net,
                   chan>>

\* emit_status_update called by a command, second half: the emit (the
\* commands pass no thread id). The command goes on when it succeeds and
\* returns the error at once, dropping its guards, when it fails.
Emit(t) ==
    /\ tk[t].pc = "emit"
    /\ \E ok \in BOOLEAN :
         /\ ui' = IF ok THEN Append(ui, StatusPayload(tk[t].status, tk[t].sseq, None, None))
                  ELSE ui
         /\ lost' = IF ok THEN lost ELSE lost + 1
         /\ CASE ok /\ tk[t].next = "assign" ->
                   /\ tk' = [tk EXCEPT ![t].pc = "assign"]
                   /\ UNCHANGED lock
              [] ok /\ tk[t].next = "kill" ->
                   /\ tk' = [tk EXCEPT ![t].pc = "kill"]
                   /\ lock' = None
              [] ok /\ tk[t].next = "done" ->
                   /\ tk' = [tk EXCEPT ![t] = IdleTask]
                   /\ UNCHANGED lock
              [] OTHER ->
                   /\ tk' = [tk EXCEPT ![t] = IdleTask]
                   /\ lock' = IF lock = Some(t) THEN None ELSE lock
    /\ chan' = IF tk'[t].pc = "idle" THEN RxDropped(t) ELSE chan
    /\ UNCHANGED <<state, status_seq, debugger_type, current_thread_id, client, process,
                   clientVars, rx, side, nread, ncmd, launches, killed, net>>

\* terminate_program, the end: the child, if one is stored, is killed and
\* the handle cleared.
Kill(t) ==
    /\ tk[t].pc = "kill"
    /\ process' = None
    /\ killed' = killed \cup process
    /\ tk' = [tk EXCEPT ![t] = IdleTask]
    /\ UNCHANGED <<state, status_seq, debugger_type, current_thread_id, client, lock,
                   clientVars, rx, side, ui, lost, nread, ncmd, launches, net, chan>>

Command(t) ==
    \/ Invoke(t) \/ InvokeTerminate(t) \/ InvokeLaunch(t) \/ StartReceiver(t)
    \/ AcquireClient(t) \/ SendAssign(t) \/ SendHeader(t) \/ SendBody(t)
    \/ WaitCheck(t) \/ WaitPoll(t) \/ Expire(t) \/ HandleResponse(t)
    \/ StoreClient(t) \/ StoreProcess(t) \/ FetchAdd(t) \/ Emit(t) \/ Kill(t)

Next == (\E c \in Clients : Receiver(c)) \/ (\E t \in Tasks : Command(t))

Spec == Init /\ [][Next]_vars

\* ------------------------------------------- send_message, called directly
\* A thread that shares the client calls send_message on it.
S_Call(t) ==
    /\ CanStart(t)
    /\ ncmd < MaxSends
    /\ tk' = [tk EXCEPT ![t] = [IdleTask EXCEPT !.pc = "assign",
                !.cmd = "send_message", !.cid = 1, !.req = "request"]]
    /\ ncmd' = ncmd + 1
    /\ UNCHANGED <<sessionVars, clientVars, rx, side, ui, lost, nread, launches, killed,
                   net, chan>>

SendNext == \E t \in Tasks : S_Call(t) \/ SendAssign(t) \/ SendHeader(t) \/ SendBody(t)

SendSpec == Init /\ [][SendNext]_vars

\* ------------------------------------------- the attach-style happy path
\* The commands the UI issues, each once the adapter has delivered `frames`
\* frames and the command before it has returned.
HappyCmds ==
    << [cmd |-> "launch_debug_session", frames |-> 0],
       [cmd |-> "set_breakpoints", frames |-> 2],
       [cmd |-> "configuration_done", frames |-> 3],
       [cmd |-> "continue_debug", frames |-> 5] >>

\* What the adapter delivers, in order: a response once the request it
\* answers is written, an event once the request before it (if any) is.
HappyScript ==
    << [kind |-> "response", name |-> "", on |-> "initialize", body |-> None],
       [kind |-> "event", name |-> "initialized", on |-> "attach", body |-> None],
       [kind |-> "response", name |-> "", on |-> "setBreakpoints", body |-> None],
       [kind |-> "response", name |-> "", on |-> "configurationDone", body |-> None],
       [kind |-> "event", name |-> "stopped", on |-> "",
        body |-> Some(BodyOf(Some("breakpoint"), Some(1)))],
       [kind |-> "response", name |-> "", on |-> "continue", body |-> None],
       [kind |-> "event", name |-> "terminated", on |-> "", body |-> None] >>

Written(c, command) ==
    \E i \in 1 .. Len(wire[c]) :
        wire[c][i].kind = "body" /\ wire[c][i].command = command
SeqOf(c, command) ==
    wire[c][CHOOSE i \in 1 .. Len(wire[c]) :
                wire[c][i].kind = "body" /\ wire[c][i].command = command].seq
HappyFrame(c, s) ==
    IF s.kind = "response"
    THEN ResponseFrame(Some(SeqOf(c, s.on)), TRUE)
    ELSE EventFrame(s.name, s.body)

\* The UI issues the next command of the path: launch_debug_session for an
\* attach-style (python) adapter, then the adapter commands.
H_Invoke(t) ==
    /\ CanStart(t)
    /\ \A u \in Tasks : tk[u].pc = "idle"
    /\ ncmd < Len(HappyCmds)
    /\ nread >= HappyCmds[ncmd + 1].frames
    /\ \A c \in Clients : nread = HappyCmds[ncmd + 1].frames => rx[c].pc \in {"none", "read"}
    /\ LET cmd == HappyCmds[ncmd + 1].cmd
       IN IF cmd = "launch_debug_session"
          THEN /\ debugger_type' = Some("python")
               /\ tk' = [tk EXCEPT ![t] = [IdleTask EXCEPT !.pc = "recv", !.cmd = cmd,
                               !.cid = launches + 1, !.dtype = Some("python")]]
               /\ launches' = launches + 1
               /\ chan' = [chan EXCEPT ![launches + 1] = NewChannel]
          ELSE /\ tk' = [tk EXCEPT ![t] = [IdleTask EXCEPT !.pc = "lock", !.cmd = cmd]]
               /\ UNCHANGED <<debugger_type, current_thread_id, launches, chan>>
    /\ ncmd' = ncmd + 1
    /\ UNCHANGED <<state, status_seq, current_thread_id, client, process, lock,
                   clientVars, rx, side, ui, lost, nread, killed, net>>

\* The receiver reads the next frame of the adapter's script.
H_Read(c) ==
    /\ nread < Len(HappyScript)
    /\ LET s == HappyScript[nread + 1]
       IN /\ s.on = "" \/ Written(c, s.on)
          /\ ReadFrame(c, HappyFrame(c, s))
    /\ nread' = nread + 1
    /\ UNCHANGED <<status_seq, debugger_type, client, process, lock, clientVars, side, ui,
                   lost, tk, ncmd, launches, killed, net, chan>>

HappyNext ==
    \/ \E c \in Clients : H_Read(c) \/ R_FetchAdd(c) \/ R_Emit(c) \/ R_Dispatch(c)
    \/ \E t \in Tasks :
         \/ H_Invoke(t) \/ StartReceiver(t) \/ AcquireClient(t) \/ SendAssign(t)
         \/ SendHeader(t) \/ SendBody(t) \/ WaitCheck(t) \/ WaitPoll(t)
         \/ HandleResponse(t) \/ StoreClient(t) \/ StoreProcess(t) \/ FetchAdd(t)
         \/ Emit(t)

HappySpec == Init /\ [][HappyNext]_vars

\* The path has run to its end.
HappyDone ==
    /\ ncmd = Len(HappyCmds)
    /\ nread = Len(HappyScript)
    /\ \A t \in Tasks : tk[t].pc = "idle"
    /\ \A c \in Clients : rx[c].pc \in {"none", "read"}

\* ------------------------------------ a session from launch to terminate
\* The UI issues launch_debug_session and terminate_program one after the
\* other; the adapter and the connection behave as they like.
L_Launch(t) == (\A u \in Tasks : tk[u].pc = "idle") /\ InvokeLaunch(t)
L_Terminate(t) == (\A u \in Tasks : tk[u].pc = "idle") /\ InvokeTerminate(t)

\* The steps a running command takes by itself, and those of the receiver
\* once it holds a frame.
TaskStep(t) ==
    \/ StartReceiver(t) \/ AcquireClient(t) \/ SendAssign(t) \/ SendHeader(t)
    \/ SendBody(t) \/ WaitCheck(t) \/ WaitPoll(t) \/ HandleResponse(t)
    \/ StoreClient(t) \/ StoreProcess(t) \/ FetchAdd(t) \/ Emit(t) \/ Kill(t)
ReceiverStep(c) == R_FetchAdd(c) \/ R_Emit(c) \/ R_Dispatch(c)
\* The adapter's end of the connection is closed when its process is killed:
\* the receiver's read then fails.
KilledEof(c) == c \in killed /\ R_Eof(c)

LiveNext ==
    \/ \E c \in Clients : Receiver(c)
    \/ \E t \in Tasks : L_Launch(t) \/ L_Terminate(t) \/ TaskStep(t) \/ Expire(t)

\* Threads and tasks that can run do run, a timeout elapses, and a killed
\* adapter's connection reports end-of-file; what the UI invokes and what
\* the adapter sends is up to them.
LiveFair ==
    /\ \A t \in Tasks : WF_vars(TaskStep(t)) /\ WF_vars(Expire(t))
    /\ \A c \in Clients : WF_vars(ReceiverStep(c)) /\ WF_vars(KilledEof(c))

LiveSpec == Init /\ [][LiveNext]_vars /\ LiveFair

\* ------------------------------------------ the whole UI command surface
\* One UI task issues launch_debug_session and the adapter commands one after
\* the other while the receiver runs; the adapter's responses may carry a body.
BodyResponse(rs, ok) == [ResponseFrame(rs, ok) EXCEPT !.body = Some(BodyOf(None, None))]
SurfaceFrames ==
    InboundFrames \cup {BodyResponse(Some(k), ok) : k \in 1 .. MaxRespSeq, ok \in BOOLEAN}
UiTask == TaskSeq[1]

SurfaceNext ==
    \/ \E c \in Clients :
         \/ R_ReadFrom(c, SurfaceFrames) \/ R_Eof(c)
         \/ R_FetchAdd(c) \/ R_Emit(c) \/ R_Dispatch(c)
    \/ \E cmd \in UiCmds : InvokeCmd(UiTask, cmd)
    \/ InvokeLaunch(UiTask) \/ StartReceiver(UiTask) \/ AcquireClient(UiTask)
    \/ SendAssign(UiTask) \/ SendHeader(UiTask) \/ SendBody(UiTask)
    \/ WaitCheck(UiTask) \/ WaitPoll(UiTask) \/ Expire(UiTask)
    \/ HandleResponse(UiTask) \/ StoreClient(UiTask) \/ StoreProcess(UiTask)
    \/ FetchAdd(UiTask) \/ Emit(UiTask)

SurfaceSpec == Init /\ [][SurfaceNext]_vars

\* ------------------------------------------- the connection byte by byte
\* The adapter writes a few frames, each a header with the right
\* Content-Length and a body: the text of a message, or one of these bodies
\* that are not (no JSON, JSON that is no DAP message, invalid UTF-8, bytes
\* that look like the end of a header).
MaxStreamFrames == 2
JunkBodies ==
    { <<"x", "x">>, <<"{", "}">>, <<"{", "FF", "}">>, <<"CR", "LF", "CR", "LF">> }
Frame(body, msg) == [bytes |-> FrameHeader(Len(body)) \o body, msg |-> msg]
\* send_message's bytes for a message: the header with the length of its
\* text, then the text.
Encode(msg) == [bytes |-> FrameHeader(ByteLen(ToJson(msg))) \o ToJson(msg), msg |-> Some(msg)]
StreamFrames ==
    {Encode(CodecMsgs[i]) : i \in 1 .. Len(CodecMsgs)} \cup {Frame(b, None) : b \in JunkBodies}
Streams == UNION {[1 .. n -> StreamFrames] : n \in 1 .. MaxStreamFrames}
RECURSIVE StreamBytes(_)
StreamBytes(fs) ==
    IF fs = <<>> THEN <<>> ELSE Head(fs).bytes \o StreamBytes(Tail(fs))
\* The messages of the well-formed frames of fs, in order.
RECURSIVE StreamMsgs(_)
StreamMsgs(fs) ==
    IF fs = <<>> THEN <<>>
    ELSE (IF IsSome(Head(fs).msg) THEN <<Unwrap(Head(fs).msg)>> ELSE <<>>)
             \o StreamMsgs(Tail(fs))

\* A session whose launch has started the receiver and has given up waiting
\* for the response to initialize; the bytes the adapter writes on this first
\* client's connection are still to come.
CodecInit ==
    /\ state = NotStarted
    /\ status_seq = 0
    /\ debugger_type = Some("python")
    /\ current_thread_id = None
    /\ client = None
    /\ process = None
    /\ lock = None
    /\ next_seq = [c \in Clients |-> IF c = 1 THEN 2 ELSE 1]
    /\ client_status_seq = [c \in Clients |-> 0]
    /\ wlock = [c \in Clients |-> None]
    /\ wire = [c \in Clients |->
                 IF c = 1
                 THEN <<Chunk("header", 1, "initialize"), Chunk("body", 1, "initialize")>>
                 ELSE <<>>]
    /\ responses = [c \in Clients |-> EmptyMap]
    /\ events = [c \in Clients |-> EmptyMap]
    /\ rx = [c \in Clients |-> IF c = 1 THEN [IdleReceiver EXCEPT !.pc = "read"]
                                         ELSE IdleReceiver]
    /\ side = <<>>
    /\ ui = <<>>
    /\ lost = 0
    /\ tk = [t \in Tasks |-> IdleTask]
    /\ nread = 0
    /\ ncmd = 1
    /\ launches = 1
    /\ killed = {}
    /\ chan = [c \in Clients |-> NoChannel]
    /\ \E fs \in Streams :
         net = [IdleNet EXCEPT !.pending = StreamBytes(fs), !.frames = fs]

\* Some more of the adapter's bytes arrive at the socket.
N_Arrive ==
    /\ \E k \in 1 .. Len(net.pending) :
         net' = [net EXCEPT !.buf = @ \o SubSeq(net.pending, 1, k),
                            !.pending = SubSeq(@, k + 1, Len(@))]
    /\ UNCHANGED <<sessionVars, clientVars, rx, side, ui, lost, tk, nread, ncmd, launches,
                   killed, chan>>

\* read_exact of one header byte; at the end of the header, the parse of
\* Content-Length (a header without one is logged and the loop starts over).
N_HeaderByte(c) ==
    /\ rx[c].pc = "read"
    /\ net.phase = "header"
    /\ net.buf # <<>>
    /\ LET h == Append(net.hdr, Head(net.buf))
           len == ContentLength(h)
       IN net' = IF ~EndsHeader(h)
                 THEN [net EXCEPT !.hdr = h, !.buf = Tail(@)]
                 ELSE IF IsSome(len)
                 THEN [net EXCEPT !.hdr = <<>>, !.buf = Tail(@), !.phase = "body",
                                  !.need = Unwrap(len)]
                 ELSE [net EXCEPT !.hdr = <<>>, !.buf = Tail(@)]
    /\ UNCHANGED <<sessionVars, clientVars, rx, side, ui, lost, tk, nread, ncmd, launches,
                   killed, chan>>

\* read_exact of the body, which waits for all its bytes, and the decoding:
\* a message goes on to handle_dap_event, anything else is logged and the
\* loop starts over.
N_Body(c) ==
    /\ rx[c].pc = "read"
    /\ net.phase = "body"
    /\ Len(net.buf) >= net.need
    /\ LET msg == DecodeBody(SubSeq(net.buf, 1, net.need))
       IN /\ net' = [net EXCEPT !.buf = SubSeq(@, net.need + 1, Len(@)),
                                !.phase = "header", !.need = 0,
                                !.got = IF IsSome(msg) THEN Append(@, Unwrap(msg)) ELSE @]
          /\ IF IsSome(msg) THEN ReadFrame(c, Unwrap(msg)) ELSE UNCHANGED <<state, current_thread_id, rx>>
    /\ UNCHANGED <<status_seq, debugger_type, client, process, lock, clientVars, side, ui,
                   lost, tk, nread, ncmd, launches, killed, chan>>

\* The adapter has closed the connection and the bytes run out: read_exact
\* fails and the thread returns.
N_Eof(c) ==
    /\ net.pending = <<>>
    /\ \/ net.phase = "header" /\ net.buf = <<>>
       \/ net.phase = "body" /\ Len(net.buf) < net.need
    /\ R_Eof(c)

CodecNext ==
    \/ N_Arrive
    \/ \E c \in Clients : \/ N_HeaderByte(c) \/ N_Body(c) \/ N_Eof(c)
                          \/ R_FetchAdd(c) \/ R_Emit(c) \/ R_Dispatch(c)

CodecSpec == CodecInit /\ [][CodecNext]_vars

\* The bytes the receiver has consumed, and where frame i+1 of fs starts.
Consumed == Len(StreamBytes(net.frames)) - Len(net.buf) - Len(net.pending)
FrameEnd(fs, i) == Len(StreamBytes(SubSeq(fs, 1, i)))
\* The frame whose body the receiver is about to read.
CurrentFrame ==
    CHOOSE i \in 1 .. Len(net.frames) :
        FrameEnd(net.frames, i - 1) < Consumed /\ Consumed < FrameEnd(net.frames, i)

\* ------------------------------------- the location lookup step by step
\* emit_status_update on the receiver thread, with get_stack_trace_sync's
\* wait visible: the request is written on a connection of its own, and the
\* caller then polls the reply channel every 50 ms for up to two seconds.
LookupNeeded(c) ==
    LET st == ReceiverStatus(rx[c].msg)
    IN st.status = "paused" /\ IsSome(st.thread_id)

\* The emit that ends emit_status_update, with the location found (if any).
EmitStatus(c, loc, ok) ==
    LET st == ReceiverStatus(rx[c].msg)
        m == StatusPayload(st.status, rx[c].sseq, st.thread_id, loc)
    IN /\ ui' = IF ok THEN Append(ui, m) ELSE ui
       /\ lost' = IF ok THEN lost ELSE lost + 1
       /\ rx' = [rx EXCEPT ![c].pc = "dispatch",
                           ![c].out = IF ok THEN Append(@, m) ELSE @]

\* No lookup (no paused status with a thread id), or neither port accepts
\* the connection: the status is emitted without a location.
K_EmitPlain(c) ==
    /\ rx[c].pc = "emit"
    /\ \E ok \in BOOLEAN : EmitStatus(c, None, ok)
    /\ UNCHANGED <<sessionVars, clientVars, side, tk, nread, ncmd, launches, killed, net,
                   chan>>

\* The lookup connects and writes its stackTrace request, and the receiver
\* thread starts polling for the reply.
K_LookupBegin(c) ==
    /\ rx[c].pc = "emit"
    /\ LookupNeeded(c)
    /\ side' = Append(side, [seq |-> StackTraceSeq, command |-> "stackTrace",
                             threadId |-> Unwrap(ReceiverStatus(rx[c].msg).thread_id),
                             cid |-> c])
    /\ rx' = [rx EXCEPT ![c].pc = "lookup"]
    /\ UNCHANGED <<sessionVars, clientVars, ui, lost, tk, nread, ncmd, launches, killed,
                   net, chan>>

\* The poll loop ends, with the reply, an error or the timeout, and the
\* status is emitted.
K_LookupEnd(c) ==
    /\ rx[c].pc = "lookup"
    /\ \E loc \in {None, Some(Location)}, ok \in BOOLEAN : EmitStatus(c, loc, ok)
    /\ UNCHANGED <<sessionVars, clientVars, side, tk, nread, ncmd, launches, killed, net,
                   chan>>

LookupNext ==
    \/ \E c \in Clients :
         \/ R_Read(c) \/ R_Eof(c) \/ R_FetchAdd(c)
         \/ K_EmitPlain(c) \/ K_LookupBegin(c) \/ K_LookupEnd(c)
         \/ R_Dispatch(c)
    \/ InvokeLaunch(UiTask) \/ StartReceiver(UiTask)
    \/ SendAssign(UiTask) \/ SendHeader(UiTask) \/ SendBody(UiTask)
    \/ WaitCheck(UiTask) \/ WaitPoll(UiTask) \/ Expire(UiTask)
    \/ HandleResponse(UiTask) \/ StoreClient(UiTask) \/ StoreProcess(UiTask)
    \/ FetchAdd(UiTask) \/ Emit(UiTask)

LookupSpec == Init /\ [][LookupNext]_vars

\* ----------------------------------- two commands on a paused session
\* An attach-style session that has been launched and has stopped: the
\* launch has returned, the adapter has answered initialize and reported a
\* stop of thread 1, and the UI has been told both.
StoppedFrame == EventFrame("stopped", Some(BodyOf(Some("breakpoint"), Some(1))))
PausedSession ==
    /\ state = Paused("breakpoint", 1)
    /\ status_seq = 2
    /\ debugger_type = Some("python")
    /\ current_thread_id = Some(1)
    /\ client = Some(1)
    /\ process = Some(1)
    /\ lock = None
    /\ next_seq = [c \in Clients |-> IF c = 1 THEN 3 ELSE 1]
    /\ client_status_seq = [c \in Clients |-> 0]
    /\ wlock = [c \in Clients |-> None]
    /\ wire = [c \in Clients |->
                 IF c = 1
                 THEN <<Chunk("header", 1, "initialize"), Chunk("body", 1, "initialize"),
                        Chunk("header", 2, "attach"), Chunk("body", 2, "attach")>>
                 ELSE <<>>]
    /\ responses = [c \in Clients |-> EmptyMap]
    /\ events = [c \in Clients |->
                   IF c = 1 THEN AppendEvent(EmptyMap, StoppedFrame) ELSE EmptyMap]
    /\ rx = [c \in Clients |->
               IF c = 1
               THEN [IdleReceiver EXCEPT !.pc = "read",
                                         !.ctr = ReceiverCounter(Some("status_seq"))]
               ELSE IdleReceiver]
    /\ side = <<>>
    /\ ui = <<StatusPayload("initializing", 0, None, None),
              StatusPayload("paused", 1, Some(1), None)>>
    /\ lost = 0
    /\ tk = [t \in Tasks |-> IdleTask]
    /\ launches = 1
    /\ killed = {}
    /\ net = IdleNet
    /\ chan = [c \in Clients |-> NoChannel]
PairInit == PausedSession /\ nread = 0 /\ ncmd = 0

\* The UI invokes continue_debug and evaluate_expression, once each, while
\* the state record is Paused; the two tasks run concurrently.
PairCmds == {"continue_debug", "evaluate_expression"}
P_Invoke(t, cmd) ==
    /\ state.tag = "Paused"
    /\ \A u \in Tasks : tk[u].cmd # cmd
    /\ \A i \in 1 .. Len(wire[1]) : wire[1][i].command # DapCommand(cmd)
    /\ InvokeCmd(t, cmd)

PairNext ==
    \/ \E c \in Clients : Receiver(c)
    \/ \E t \in Tasks :
         \/ \E cmd \in PairCmds : P_Invoke(t, cmd)
         \/ AcquireClient(t) \/ SendAssign(t) \/ SendHeader(t) \/ SendBody(t)
         \/ WaitCheck(t) \/ WaitPoll(t) \/ Expire(t) \/ HandleResponse(t)

PairSpec == PairInit /\ [][PairNext]_vars

\* ---------------------------------------------- a session with output
\* The adapter also sends output events: without a body, or with a body that
\* has a category (stdout, stderr, another one, none) and a text or none.
OutputFrames ==
    {EventFrame("output", None)}
        \cup {EventFrame("output", Some(OutputBody(cat, out))) :
                cat \in {None, Some("stdout"), Some("stderr"), Some("console")},
                out \in {None, Some("hello")}}

OutputNext ==
    \/ \E c \in Clients :
         \/ R_ReadFrom(c, InboundFrames \cup OutputFrames) \/ R_Eof(c)
         \/ R_FetchAdd(c) \/ R_Emit(c) \/ R_Dispatch(c)
    \/ InvokeLaunch(UiTask) \/ StartReceiver(UiTask)
    \/ SendAssign(UiTask) \/ SendHeader(UiTask) \/ SendBody(UiTask)
    \/ WaitCheck(UiTask) \/ WaitPoll(UiTask) \/ Expire(UiTask)
    \/ HandleResponse(UiTask) \/ StoreClient(UiTask) \/ StoreProcess(UiTask)
    \/ FetchAdd(UiTask) \/ Emit(UiTask)

OutputSpec == Init /\ [][OutputNext]_vars

\* ------------------------------------------- evaluate on a stored session
\* A launch-style session that has been launched: the adapter has answered
\* initialize and launch, both handles are stored and the UI has been told.
LaunchedSession ==
    /\ state = NotStarted
    /\ status_seq = 1
    /\ debugger_type = Some("rust")
    /\ current_thread_id = None
    /\ client = Some(1)
    /\ process = Some(1)
    /\ lock = None
    /\ next_seq = [c \in Clients |-> IF c = 1 THEN 3 ELSE 1]
    /\ client_status_seq = [c \in Clients |-> 0]
    /\ wlock = [c \in Clients |-> None]
    /\ wire = [c \in Clients |->
                 IF c = 1
                 THEN <<Chunk("header", 1, "initialize"), Chunk("body", 1, "initialize"),
                        Chunk("header", 2, "launch"), Chunk("body", 2, "launch")>>
                 ELSE <<>>]
    /\ responses = [c \in Clients |-> EmptyMap]
    /\ events = [c \in Clients |-> EmptyMap]
    /\ rx = [c \in Clients |->
               IF c = 1
               THEN [IdleReceiver EXCEPT !.pc = "read",
                                         !.ctr = ReceiverCounter(Some("status_seq"))]
               ELSE IdleReceiver]
    /\ side = <<>>
    /\ ui = <<StatusPayload("initializing", 0, None, None)>>
    /\ lost = 0
    /\ tk = [t \in Tasks |-> IdleTask]
    /\ launches = 1
    /\ killed = {}
    /\ net = IdleNet
    /\ chan = [c \in Clients |-> NoChannel]
EvalInit == (LaunchedSession \/ PausedSession) /\ nread = 0 /\ ncmd = 0

\* The expressions the UI asks for: a + b, that with the word expr or
\* expression and a space before it, and a name that begins with the
\* letters of the word. The adapter answers requests and sends no events.
Sum == <<"a", " ", "+", " ", "b">>
Expressions == {Sum, ExprWord \o Sum, ExpressionWord \o Sum, <<"expr", "s">>}
EvalFrames == {ResponseFrame(Some(k), ok) : k \in 1 .. MaxRespSeq, ok \in BOOLEAN}

\* evaluate_expression is invoked with expression e.
E_Invoke(t, e) ==
    /\ CanStart(t)
    /\ ncmd < MaxCmds
    /\ tk' = [tk EXCEPT ![t] = [IdleTask EXCEPT !.pc = "lock",
                !.cmd = "evaluate_expression", !.expr = e]]
    /\ ncmd' = ncmd + 1
    /\ UNCHANGED <<sessionVars, clientVars, rx, side, ui, lost, nread, launches, killed,
                   net, chan>>

\* launch_debug_session is invoked and returns an error before it has a
\* client: no port, no adapter binary, or no connection. The adapter kind
\* has been recorded by then.
E_LaunchFails(t) ==
    /\ CanStart(t)
    /\ ncmd < MaxCmds
    /\ \E engine \in {"python", "rust"} : debugger_type' = Some(engine)
    /\ ncmd' = ncmd + 1
    /\ UNCHANGED <<state, status_seq, current_thread_id, client, process, lock,
                   clientVars, rx, side, ui, lost, tk, nread, launches, killed, net, chan>>

EvalNext ==
    \/ \E c \in Clients : R_ReadFrom(c, EvalFrames) \/ R_Eof(c) \/ R_Dispatch(c)
    \/ \E e \in Expressions : E_Invoke(UiTask, e)
    \/ E_LaunchFails(UiTask)
    \/ AcquireClient(UiTask) \/ SendAssign(UiTask) \/ SendHeader(UiTask)
    \/ SendBody(UiTask) \/ WaitCheck(UiTask) \/ WaitPoll(UiTask) \/ Expire(UiTask)
    \/ HandleResponse(UiTask)

EvalSpec == EvalInit /\ [][EvalNext]_vars

\* ------------------------------------------------ wait_for_event callers
\* A client whose owner has connected it and started its receiver without a
\* session: DAPClient::new, connect and start_receiver, nothing sent yet.
ConnectedClient ==
    /\ state = NotStarted
    /\ status_seq = 0
    /\ debugger_type = None
    /\ current_thread_id = None
    /\ client = None
    /\ process = None
    /\ lock = None
    /\ next_seq = [c \in Clients |-> 1]
    /\ client_status_seq = [c \in Clients |-> 0]
    /\ wlock = [c \in Clients |-> None]
    /\ wire = [c \in Clients |-> <<>>]
    /\ responses = [c \in Clients |-> EmptyMap]
    /\ events = [c \in Clients |-> EmptyMap]
    /\ rx = [c \in Clients |->
               IF c = 1
               THEN [IdleReceiver EXCEPT !.pc = "read", !.ctr = ReceiverCounter(None)]
               ELSE IdleReceiver]
    /\ side = <<>>
    /\ ui = <<>>
    /\ lost = 0
    /\ tk = [t \in Tasks |-> IdleTask]
    /\ launches = 0
    /\ killed = {}
    /\ net = IdleNet
    /\ chan = [c \in Clients |-> NoChannel]
WaitInit == ConnectedClient /\ nread = 0 /\ ncmd = 0

\* The event names the callers wait for, and what the adapter delivers.
WaitNames == {"initialized", "stopped", "terminated"}
WaitFrames ==
    {EventFrame(n, None) : n \in {"initialized", "terminated"}}
        \cup {EventFrame("stopped", Some(BodyOf(Some("breakpoint"), Some(i)))) :
                i \in 1 .. MaxThread}

\* The queue of event name in table tbl: events.get_mut(name).
EventQueue(tbl, name) == IF name \in DOMAIN tbl THEN tbl[name] ELSE <<>>
\* list.remove(0), and the queue it leaves.
TakeEvent_Last(list) == list[Len(list)]
TakeEvent(list) == Head(list)
AfterTake(list) == Tail(list)

\* wait_for_event(name, timeout) is called on the client.
W_Call(t, name) ==
    /\ CanStart(t)
    /\ ncmd < MaxCmds
    /\ tk' = [tk EXCEPT ![t] = [IdleTask EXCEPT !.pc = "evwait", !.cmd = "wait_for_event",
                                                !.cid = 1, !.req = name]]
    /\ ncmd' = ncmd + 1
    /\ UNCHANGED <<sessionVars, clientVars, rx, side, ui, lost, nread, launches, killed,
                   net, chan>>

\* wait_for_event, loop head: the elapsed time is compared with the timeout.
W_Check(t) ==
    /\ tk[t].pc = "evwait"
    /\ tk' = [tk EXCEPT ![t] = IF tk[t].expired
                               THEN [@ EXCEPT !.pc = "evret", !.res = None]
                               ELSE [@ EXCEPT !.pc = "evpoll"]]
    /\ UNCHANGED <<sessionVars, clientVars, rx, side, ui, lost, nread, ncmd, launches,
                   killed, net, chan>>

\* wait_for_event, loop body: a non-empty queue of the name gives up its
\* first event, which is returned; otherwise the caller sleeps and goes back
\* to the loop head.
W_Poll(t) ==
    /\ tk[t].pc = "evpoll"
    /\ LET c == tk[t].cid
           n == tk[t].req
           list == EventQueue(events[c], n)
       IN IF list # <<>>
          THEN /\ tk' = [tk EXCEPT ![t].pc = "evret", ![t].res = Some(TakeEvent(list))]
               /\ events' = [events EXCEPT ![c] = MapInsert(@, n, AfterTake(list))]
          ELSE /\ tk' = [tk EXCEPT ![t].pc = "evwait"]
               /\ UNCHANGED events
    /\ UNCHANGED <<sessionVars, next_seq, client_status_seq, wlock, wire, responses, rx,
                   side, ui, lost, nread, ncmd, launches, killed, net, chan>>

\* The timeout of a wait_for_event call elapses. Kept for the statements
\* about the call: whether an event of its name was queued at that moment.
W_Expire(t) ==
    /\ tk[t].pc \in {"evwait", "evpoll"}
    /\ ~tk[t].expired
    /\ tk' = [tk EXCEPT ![t].expired = TRUE,
                        ![t].intime = EventQueue(events[tk[t].cid], tk[t].req) # <<>>]
    /\ UNCHANGED <<sessionVars, clientVars, rx, side, ui, lost, nread, ncmd, launches,
                   killed, net, chan>>

\* The caller has its result and goes on.
W_Return(t) ==
    /\ tk[t].pc = "evret"
    /\ tk' = [tk EXCEPT ![t] = IdleTask]
    /\ UNCHANGED <<sessionVars, clientVars, rx, side, ui, lost, nread, ncmd, launches,
                   killed, net, chan>>

WaitNext ==
    \/ \E c \in Clients :
         \/ R_ReadFrom(c, WaitFrames) \/ R_Eof(c)
         \/ R_FetchAdd(c) \/ R_Emit(c) \/ R_Dispatch(c)
    \/ \E t \in Tasks :
         \/ \E n \in WaitNames : W_Call(t, n)
         \/ W_Check(t) \/ W_Poll(t) \/ W_Expire(t) \/ W_Return(t)

WaitSpec == WaitInit /\ [][WaitNext]_vars

\* ------------------------------------- configuration_done on a stored session
\* The UI invokes configuration_done on a stored session while the adapter
\* sends what it likes.
ConfCmds == {"configuration_done"}
ConfNext ==
    \/ \E c \in Clients : Receiver(c)
    \/ \E t \in Tasks :
         \/ \E cmd \in ConfCmds : InvokeCmd(t, cmd)
         \/ AcquireClient(t) \/ SendAssign(t) \/ SendHeader(t) \/ SendBody(t)
         \/ WaitCheck(t) \/ WaitPoll(t) \/ Expire(t) \/ HandleResponse(t)

ConfSpec == EvalInit /\ [][ConfNext]_vars

\* -------------------------------------------- a launch on a stored session
\* The UI invokes launch_debug_session while a session is stored; the
\* receivers of both clients run and either adapter sends responses to the
\* requests of a launch, a stopped event or a terminated event.
RelaunchFrames ==
    {ResponseFrame(Some(k), ok) : k \in 1 .. 2, ok \in BOOLEAN}
        \cup {EventFrame("stopped", Some(BodyOf(Some("breakpoint"), Some(1)))),
              EventFrame("terminated", None)}

RelaunchNext ==
    \/ \E c \in Clients :
         \/ R_ReadFrom(c, RelaunchFrames) \/ R_Eof(c)
         \/ R_FetchAdd(c) \/ R_Emit(c) \/ R_Dispatch(c)
    \/ LaunchCall(UiTask, MaxClients) \/ StartReceiver(UiTask)
    \/ SendAssign(UiTask) \/ SendHeader(UiTask) \/ SendBody(UiTask)
    \/ WaitCheck(UiTask) \/ WaitPoll(UiTask) \/ Expire(UiTask)
    \/ HandleResponse(UiTask) \/ StoreClient(UiTask) \/ StoreProcess(UiTask)
    \/ FetchAdd(UiTask) \/ Emit(UiTask)

RelaunchSpec == EvalInit /\ [][RelaunchNext]_vars

\* ================================================================== claims

\* A receiver pass that has just applied frame rx'[c].msg to the state record.
Applied(c) == rx[c].pc = "read" /\ rx'[c].pc \in {"fetch", "dispatch"}
\* A receiver pass that ends.
PassEnds(c) == rx[c].pc = "dispatch" /\ rx'[c].pc = "read"

\* C1: once the state record is Terminated it stays Terminated, whatever
\* event or configurationDone acknowledgment is applied afterwards.
C1_TerminatedIsFinal ==
    [][state.tag = "Terminated" => state'.tag = "Terminated"]_vars

\* The transition table of the state record: the state after frame f in state st.
TransitionTable(st, f) ==
    CASE IsEvent(f, "initialized") ->
           IF st.tag = "NotStarted" THEN Configuring ELSE st
      [] IsEvent(f, "continued") ->
           IF st.tag \in {"Configuring", "Paused"} THEN Running ELSE st
      [] IsEvent(f, "stopped") ->
           IF st.tag \in {"Running", "Configuring"} /\ IsSome(f.body)
           THEN Paused(UnwrapOr(Unwrap(f.body).reason, DefaultReason),
                       UnwrapOr(Unwrap(f.body).threadId, DefaultThreadId))
           ELSE st
      [] IsEvent(f, "terminated") -> Terminated
      [] OTHER -> st

\* C2: every change of the state record made when an inbound frame is
\* applied follows the transition table; an event arriving in a state not
\* listed for it, and a frame that is no event, leave the record unchanged.
C2_FollowsTransitionTable ==
    [][\A c \in Clients :
         Applied(c) => state' = TransitionTable(state, rx'[c].msg)]_vars

\* C3: debug-status messages reach the UI in strictly increasing seq order,
\* under every interleaving of the receiver thread and the command tasks.
C3_StatusSeqIncreasing ==
    \A i, j \in 1 .. Len(ui) : i < j => ui[i].seq < ui[j].seq

\* The status seqs taken from the session counter and not emitted yet.
PendingStatus ==
    {<<"task", t>> : t \in {u \in Tasks : tk[u].pc = "emit"}}
        \cup {<<"receiver", c>> : c \in {d \in Clients : rx[d].pc = "emit"}}
PendingSeq(p) == IF p[1] = "task" THEN tk[p[2]].sseq ELSE rx[p[2]].sseq

\* C4: no two debug-status messages carry the same seq, whether the receiver
\* or a command emits them: every one is stamped from the one session counter,
\* which starts at 0 and grows by one per emission.
C4_StatusSeqUnique ==
    /\ \A i, j \in 1 .. Len(ui) : i # j => ui[i].seq # ui[j].seq
    /\ \A i \in 1 .. Len(ui) : ui[i].seq \in 0 .. status_seq - 1
    /\ \A p \in PendingStatus :
         /\ PendingSeq(p) \in 0 .. status_seq - 1
         /\ \A i \in 1 .. Len(ui) : ui[i].seq # PendingSeq(p)
         /\ \A q \in PendingStatus : q # p => PendingSeq(q) # PendingSeq(p)
    /\ status_seq = Len(ui) + Cardinality(PendingStatus) + lost

\* C4's case: the UI holds a status the receiver emitted (paused) and one a
\* command emitted (initializing).
C4_Witness ==
    \E i, j \in 1 .. Len(ui) : ui[i].status = "paused" /\ ui[j].status = "initializing"

\* The request frames of client c's session: those send_message wrote (a
\* frame per header chunk) and those the location lookups wrote.
Headers(w) == SelectSeq(w, LAMBDA ch : ch.kind = "header")
OutboundSeqs(c) ==
    [i \in 1 .. Len(Headers(wire[c])) |-> Headers(wire[c])[i].seq]
        \o [i \in 1 .. Len(SelectSeq(side, LAMBDA f : f.cid = c)) |->
              SelectSeq(side, LAMBDA f : f.cid = c)[i].seq]

\* C5: every request frame of a session, the stackTrace request of a location
\* lookup included, carries a seq taken from the client's counter, and no two
\* outbound frames share a seq.
C5_OutboundSeqFromCounter ==
    \A c \in Clients :
        LET out == OutboundSeqs(c)
        IN /\ \A i \in 1 .. Len(out) : out[i] \in 1 .. next_seq[c] - 1
           /\ \A i, j \in 1 .. Len(out) : i # j => out[i] # out[j]

\* C6: the frames of any two send_message calls on one client, overlapping
\* calls included, are on the transport in increasing seq order, and the
\* header and body of a frame are never separated by bytes of another frame.
C6_WrittenInSeqOrder ==
    \A c \in Clients :
        /\ \A i, j \in 1 .. Len(Headers(wire[c])) :
             i < j => Headers(wire[c])[i].seq < Headers(wire[c])[j].seq
        /\ \A i \in 1 .. Len(wire[c]) :
             wire[c][i].kind = "body" =>
                 i > 1 /\ wire[c][i - 1] = Chunk("header", wire[c][i].seq, wire[c][i].command)

\* A response that answers a request of client c that is sent and awaited.
Outstanding(c, msg) ==
    /\ IsSome(msg.request_seq)
    /\ \E t \in Tasks :
         /\ tk[t].cid = c
         /\ tk[t].pc \in {"wait", "poll"}
         /\ tk[t].seq = Unwrap(msg.request_seq)

\* C7: a response whose request_seq is the seq of no outstanding request is
\* dropped: the response table and every other session datum stay as they are.
C7_UnmatchedResponseDropped ==
    [][\A c \in Clients :
         (PassEnds(c) /\ rx[c].msg.type = "response" /\ ~Outstanding(c, rx[c].msg))
             => UNCHANGED <<responses, events, state, status_seq, ui, lost>>]_vars

\* C8 as stated: a wait returns the response to s whenever it is in the table
\* before the timeout elapses, never a frame with another request_seq, and
\* None only when no such response came in time.
C8_ReturnsWheneverInTime ==
    \A t \in Tasks :
        tk[t].pc = "resp" =>
            /\ tk[t].intime => IsSome(tk[t].res)
            /\ IsSome(tk[t].res) => Unwrap(tk[t].res).request_seq = Some(tk[t].seq)

\* C8, amended: a poll that finds the response to s returns that frame and
\* removes it from the table; a wait returns no frame with another
\* request_seq; and it returns None only after its timeout has elapsed.
C8_WaitForResponse ==
    [][\A t \in Tasks :
         LET c == tk[t].cid
             s == tk[t].seq
         IN /\ (tk[t].pc = "poll" /\ tk'[t].pc # "poll" /\ s \in DOMAIN responses[c])
                  => /\ tk'[t].pc = "resp"
                     /\ tk'[t].res = Some(responses[c][s])
                     /\ s \notin DOMAIN responses'[c]
            /\ (tk[t].pc \in {"wait", "poll"} /\ tk'[t].pc = "resp")
                  => IF tk'[t].res = None
                     THEN tk[t].expired /\ responses'[c] = responses[c]
                     ELSE /\ Unwrap(tk'[t].res).request_seq = Some(s)
                          /\ s \notin DOMAIN responses'[c]]_vars

\* C8's case: a wait has returned the response to its request, which was in
\* the table before the timeout elapsed.
C8_Witness ==
    \E t \in Tasks :
        /\ tk[t].pc = "resp"
        /\ tk[t].intime
        /\ IsSome(tk[t].res)
        /\ tk[t].seq \notin DOMAIN responses[tk[t].cid]

\* C9: every stopped event the receiver processes gives exactly one paused
\* debug-status, carrying the threadId recorded in the state record.
C9_StoppedGivesOnePaused ==
    \A c \in Clients :
        (rx[c].pc = "dispatch" /\ IsEvent(rx[c].msg, "stopped")) =>
            /\ Len(rx[c].out) = 1
            /\ rx[c].out[1].status = "paused"
            /\ rx[c].out[1].threadId =
                   Some(handle_dap_event(rx[c].prev, rx[c].msg).thread_id)

\* The status a debug-status reports for a state record.
StatusName(st) ==
    CASE st.tag = "Configuring" -> "configuring"
      [] st.tag = "Running" -> "running"
      [] st.tag = "Paused" -> "paused"
      [] st.tag = "Terminated" -> "terminated"
      [] OTHER -> "initializing"

\* C10: every transition of the state record that changes it is accompanied
\* by exactly one debug-status of the matching status: the receiver has
\* emitted it by the end of the pass that applied the event, and a command
\* that changes the record goes on to emit it.
C10_TransitionEmitsStatus ==
    [][/\ \A c \in Clients :
            LET post == handle_dap_event(rx[c].prev, rx[c].msg)
            IN (PassEnds(c) /\ post # rx[c].prev)
                   => /\ Len(rx[c].out) = 1
                      /\ rx[c].out[1].status = StatusName(post)
       /\ \A t \in Tasks :
            (tk[t].pc = "resp" /\ tk'[t].pc # "resp" /\ state' # state)
                => /\ tk'[t].pc = "fetch"
                   /\ tk'[t].status = StatusName(state')]_vars

\* The debug-status messages the happy path is to give the UI.
HappyStatuses ==
    << [status |-> "initializing", seq |-> 0], [status |-> "configuring", seq |-> 1],
       [status |-> "running", seq |-> 2], [status |-> "paused", seq |-> 3],
       [status |-> "terminated", seq |-> 4] >>

\* C11: when the attach-style happy path has run to its end and no emit
\* failed, the UI has received exactly initializing (seq 0), configuring (1),
\* running (2), paused (3, threadId 1) and terminated (4), in that order.
C11_HappyPathStatuses ==
    (HappyDone /\ lost = 0) =>
        /\ Len(ui) = Len(HappyStatuses)
        /\ \A i \in 1 .. Len(HappyStatuses) :
             i <= Len(ui) =>
                 /\ ui[i].status = HappyStatuses[i].status
                 /\ ui[i].seq = HappyStatuses[i].seq
                 /\ ui[i].status = "paused" => ui[i].threadId = Some(1)

\* C12: a step of a UI command changes the state record only when it is
\* configuration_done returning from a wait that got its response, and then
\* only from Configuring to Running.
C12_OnlyConfigurationDone ==
    [][(state' # state /\ \A c \in Clients : ~Applied(c)) =>
          /\ \E t \in Tasks :
               /\ tk[t].pc = "resp" /\ tk'[t].pc # "resp"
               /\ tk[t].cmd = "configuration_done"
               /\ IsSome(tk[t].res)
          /\ state = Configuring
          /\ state' = Running]_vars

\* A command whose wait has ended without a response takes its next step.
TimedOut(t) == tk[t].pc = "resp" /\ tk[t].res = None /\ tk'[t].pc # "resp"
\* The steps of an adapter command up to the end of its wait.
BeforeOutcome(t) ==
    /\ tk[t].cmd \in AdapterCmds
    /\ tk[t].pc \in {"lock", "assign", "write", "body", "wait", "poll"}
    /\ tk'[t].pc # tk[t].pc

LaunchStyle(t) ==
    tk[t].cmd = "terminate_program" /\ tk[t].cid # 0 /\ tk[t].dtype = Some("rust")
AttachStyle(t) ==
    tk[t].cmd = "terminate_program" /\ tk[t].cid # 0 /\ tk[t].dtype = Some("python")
Returns(t) == tk[t].pc # "idle" /\ tk'[t].pc = "idle"

\* C14: for a launch-style session terminate_program has emitted terminated
\* when it writes the terminate request, goes on to the kill whatever the
\* outcome of the request, and returns only after the kill, with the process
\* handle cleared.
C14_LaunchStyleTerminate ==
    [][\A t \in Tasks : LaunchStyle(t) =>
         /\ (tk[t].pc = "write" /\ tk'[t].pc = "body")
                => \E i \in 1 .. Len(ui) :
                      ui[i].status = "terminated" /\ ui[i].seq = tk[t].sseq
         /\ (tk[t].pc = "resp" /\ tk'[t].pc # "resp") => tk'[t].pc = "kill"
         /\ Returns(t) => (tk[t].pc = "kill" /\ process' = None)]_vars

\* C15: for an attach-style session terminate_program emits terminated
\* itself only after its terminate request was written and got no response,
\* emits nothing when the request is answered, and in both cases returns only
\* after the kill, with the process handle cleared.
C15_AttachStyleTerminate ==
    [][\A t \in Tasks : AttachStyle(t) =>
         /\ (tk[t].pc # "fetch" /\ tk'[t].pc = "fetch")
                => /\ tk[t].pc = "resp" /\ tk[t].res = None
                   /\ \E i \in 1 .. Len(wire[tk[t].cid]) :
                        wire[tk[t].cid][i] = Chunk("body", tk[t].seq, "terminate")
         /\ (tk[t].pc = "resp" /\ IsSome(tk[t].res) /\ tk'[t].pc # "resp")
                => (tk'[t].pc = "kill" /\ ui' = ui /\ status_seq' = status_seq)
         /\ Returns(t) => (tk[t].pc = "kill" /\ process' = None)]_vars

\* C16: debug-status terminated is the last debug-status the UI receives:
\* none follows it, so it is also emitted at most once.
C16_TerminatedIsLast ==
    \A i, j \in 1 .. Len(ui) : i < j => ui[i].status # "terminated"

\* C17: when terminate_program was invoked while a process was stored, then
\* on its return, by whatever path, that process has been killed and the
\* stored handle is cleared.
C17_ProcessKilledOnReturn ==
    [][\A t \in Tasks :
         (tk[t].cmd = "terminate_program" /\ IsSome(tk[t].proc) /\ Returns(t))
             => (process' = None /\ tk[t].proc \subseteq killed')]_vars

\* C18: once the receiver has exited on a read error, a debug-status
\* terminated has been or will be emitted.
C18_EofReportsTerminated ==
    \A c \in Clients :
        (rx[c].pc = "exited") ~> (\E i \in 1 .. Len(ui) : ui[i].status = "terminated")

\* C19: once terminate_program runs on a session, that session's receiver
\* eventually observes end-of-file and exits.
C19_TerminateEndsReceiver ==
    \A c \in Clients : \A t \in Tasks :
        (tk[t].cmd = "terminate_program" /\ tk[t].cid = c) ~> (rx[c].pc = "exited")

\* C20: a frame with a valid Content-Length whose body is not valid UTF-8 or
\* is no DAP message is skipped: reading it changes neither the response
\* table, the event queues, the state record nor the status counters, emits
\* nothing, leaves the loop running and ends exactly at the end of the frame;
\* and whenever the loop is about to read a header it stands at the end of a
\* frame and has handed on exactly the messages of the well-formed frames
\* before it, in order.
C20_JunkFrameSkipped ==
    /\ [][\A c \in Clients :
            (/\ rx[c].pc = "read"
             /\ net.phase = "body" /\ net'.phase = "header"
             /\ net.frames[CurrentFrame].msg = None)
            => /\ UNCHANGED <<responses, events, state, status_seq,
                              client_status_seq, ui, lost, side, rx>>
               /\ rx'[c].pc = "read"
               /\ Consumed' = FrameEnd(net.frames, CurrentFrame)]_vars
    /\ [](net.phase = "header" /\ net.hdr = <<>>
            => \E i \in 0 .. Len(net.frames) :
                 /\ Consumed = FrameEnd(net.frames, i)
                 /\ net.got = StreamMsgs(SubSeq(net.frames, 1, i)))

\* A junk frame has been skipped and the well-formed frame after it has been
\* read, applied and put into its table.
C20_Witness ==
    /\ Len(net.frames) = 2
    /\ net.frames[1].msg = None
    /\ IsSome(net.frames[2].msg)
    /\ net.got = <<Unwrap(net.frames[2].msg)>>
    /\ Consumed = Len(StreamBytes(net.frames))
    /\ \E c \in Clients :
         /\ rx[c].pc = "read"
         /\ responses[c] # EmptyMap \/ events[c] # EmptyMap

\* All the frames of the stream are well-formed, and the receiver has read
\* and dispatched them all.
AllWellFormed == \A i \in 1 .. Len(net.frames) : IsSome(net.frames[i].msg)
StreamDone(c) ==
    /\ rx[c].pc = "read"
    /\ net.phase = "header" /\ net.hdr = <<>>
    /\ Consumed = Len(StreamBytes(net.frames))

\* C21: when the stream is the concatenation of n well-formed frames, then
\* however its bytes arrive, once the receiver has dealt with all of them it
\* has decoded and applied exactly the n messages in order and the fan-out
\* channel has been given exactly those n messages in that order.
C21_FramesForwardedInOrder ==
    \A c \in Clients :
        (net.frames # <<>> /\ AllWellFormed /\ StreamDone(c))
        => /\ net.got = StreamMsgs(net.frames)
           /\ chan[c].queue = StreamMsgs(net.frames)

StoppedSeen ==
    \E c \in Clients :
        \/ "stopped" \in DOMAIN events[c]
        \/ rx[c].pc \in {"fetch", "emit", "dispatch"} /\ IsEvent(rx[c].msg, "stopped")
StepLooks(t) == tk[t].cmd \in StepCmds /\ tk[t].pc = "lock" /\ tk'[t].pc # "lock"

\* C23: step_in or step_over invoked when no stopped event has been processed
\* returns (the precondition error) without writing a frame and without
\* taking an outbound seq.
C23_StepNeedsStopped ==
    [][\A t \in Tasks :
         (StepLooks(t) /\ ~StoppedSeen)
             => (tk'[t] = IdleTask /\ UNCHANGED <<wire, next_seq, lock>>)]_vars

\* A session is there, no stopped event has been processed, and step_in is
\* about to look for its thread id.
C23_Witness ==
    \E t \in Tasks :
        /\ tk[t].cmd = "step_in" /\ tk[t].pc = "lock"
        /\ lock = None
        /\ IsSome(client)
        /\ ~StoppedSeen
        /\ \E c \in Clients : "initialized" \in DOMAIN events[c]

UiLooks(t) == tk[t].cmd \in UiCmds /\ tk[t].pc = "lock" /\ tk'[t].pc # "lock"

\* C25: each of the nine adapter commands of the UI surface, invoked while no
\* client handle is stored, returns (its error) at once: no frame is written,
\* no seq taken, nothing is emitted to the UI, and the state record and the
\* status counter stay as they are.
C25_NoClientNoEffect ==
    [][\A t \in Tasks :
         (UiLooks(t) /\ client = None)
             => /\ tk'[t] = IdleTask
                /\ UNCHANGED <<wire, next_seq, ui, lost, state, status_seq, lock>>]_vars

\* evaluate_expression is invoked before any session was launched.
C25_Witness ==
    \E t \in Tasks :
        /\ tk[t].cmd = "evaluate_expression" /\ tk[t].pc = "lock"
        /\ client = None /\ lock = None /\ launches = 0

\* C26: an adapter command of the UI surface issued when the state record is
\* Terminated is rejected: it returns where it looked for the session and
\* writes no frame.
C26_TerminatedRejectsCommands ==
    [][\A t \in Tasks :
         (UiLooks(t) /\ tk[t].cmd # "get_paused_location" /\ state.tag = "Terminated")
             => /\ tk'[t] = IdleTask
                /\ UNCHANGED <<wire, next_seq>>]_vars

\* The requests whose response decides what the command returns.
AnsweredRequests ==
    {"launch", "setBreakpoints", "configurationDone", "continue", "stepIn", "next",
     "stepOut", "evaluate", "stackTrace"}
\* Task t takes up the response to its request, and the adapter refused it.
Refused(t) ==
    /\ tk[t].pc = "resp" /\ tk'[t].pc # "resp"
    /\ tk[t].req \in AnsweredRequests
    /\ IsSome(tk[t].res)
    /\ Unwrap(tk[t].res).success = Some(FALSE)

\* C27: a command whose request the adapter answers with success false
\* returns an error instead of its confirmation or result, and changes no
\* local state.
C27_RefusalIsAnError ==
    [][\A t \in Tasks :
         Refused(t)
             => /\ tk'[t] = IdleTask
                /\ tk[t].cmd \in UiCmds => CommandResult(tk[t].cmd, tk[t].res) = "err"
                /\ state' = state]_vars

\* launch_debug_session returns an error before it has a connected client
\* (no port, no adapter binary, spawn or connect failure): the command was
\* taken and no task goes on with it.
LaunchFailsEarly == ncmd' = ncmd + 1 /\ tk' = tk
\* launch_debug_session returns an error after initialize or launch.
LaunchFailsLate(t) ==
    tk[t].cmd = "launch_debug_session" /\ tk[t].pc = "resp" /\ tk'[t] = IdleTask

\* C28: when launch_debug_session returns an error no session is created:
\* no client and no process handle are stored, the recorded adapter kind is
\* what it was, no receiver loop started by the call is left running and
\* nothing was emitted.
C28_FailedLaunchLeavesNothing ==
    [][/\ LaunchFailsEarly
            => UNCHANGED <<debugger_type, client, process, ui, status_seq>>
       /\ \A t \in Tasks :
            LaunchFailsLate(t)
                => /\ UNCHANGED <<client, process, ui, status_seq>>
                   /\ rx'[tk[t].cid].pc \in {"none", "exited"}]_vars

\* An attach-style launch leaves the place `from` of launch_debug_session.
LaunchStep(t, from) ==
    /\ tk[t].cmd = "launch_debug_session" /\ tk[t].dtype = Some("python")
    /\ tk[t].pc = from /\ tk'[t].pc # from
\* Request req has been written in full to the transport of client c.
Sent(c, req) ==
    \E i \in 1 .. Len(wire[c]) : wire[c][i].kind = "body" /\ wire[c][i].command = req

\* C29: the steps of an attach-style launch come in this order: the receiver
\* loop is started before anything is sent; initialize is sent and its
\* response received before attach is sent; attach is not awaited; then the
\* client handle, then the process handle are stored; and only then is
\* debug-status initializing emitted, with the status seq taken after both
\* were stored.
C29_AttachLaunchOrder ==
    [][\A t \in Tasks :
         LET c == tk[t].cid
         IN /\ LaunchStep(t, "recv")
                 => wire[c] = <<>> /\ rx[c].pc = "none" /\ rx'[c].pc = "read"
            /\ (LaunchStep(t, "assign") /\ tk[t].req = "initialize")
                 => wire[c] = <<>> /\ rx[c].pc # "none"
            /\ (LaunchStep(t, "resp") /\ tk'[t].pc # "idle")
                 => /\ tk[t].req = "initialize" /\ tk'[t].req = "attach"
                    /\ IsSome(tk[t].res)
                    /\ Unwrap(tk[t].res).request_seq = Some(tk[t].seq)
                    /\ ~Sent(c, "attach")
            /\ (LaunchStep(t, "body") /\ tk[t].req = "attach")
                 => tk'[t].pc = "store" /\ client # Some(c) /\ process # Some(c)
            /\ LaunchStep(t, "store")
                 => /\ Sent(c, "initialize") /\ Sent(c, "attach")
                    /\ client' = Some(c) /\ process # Some(c)
            /\ LaunchStep(t, "proc")
                 => client = Some(c) /\ process' = Some(c)
            /\ LaunchStep(t, "fetch")
                 => /\ client = Some(c) /\ process = Some(c)
                    /\ tk'[t].status = "initializing"
                    /\ tk'[t].sseq = status_seq /\ status_seq' = status_seq + 1
            /\ (LaunchStep(t, "emit") /\ ui' # ui)
                 => /\ ui' = Append(ui, StatusPayload("initializing", tk[t].sseq, None, None))
                    /\ client = Some(c) /\ process = Some(c)]_vars

\* An attach-style launch has completed although no attach response ever
\* arrived: both handles are stored and initializing was emitted.
C29_Witness ==
    /\ debugger_type = Some("python")
    /\ client = Some(1) /\ process = Some(1)
    /\ \A t \in Tasks : tk[t].pc = "idle"
    /\ Sent(1, "attach")
    /\ 2 \notin DOMAIN responses[1]
    /\ \E i \in 1 .. Len(ui) : ui[i].status = "initializing"

\* The receiver of client c is in a read of the socket: it took the reader
\* mutex before the read and drops it after the header (or the body) is in.
ReaderLockHeld(c) == rx[c].pc = "read"
\* Task t is in wait_for_response, between two looks at the response table.
Suspended(t) == tk[t].pc \in {"wait", "poll"}

\* C30: no task holds a shared lock (the client mutex, a writer mutex, the
\* reader mutex) while it is suspended awaiting a response, and no receiver
\* holds one while it is blocked in a socket read.
C30_NoLockAcrossWait ==
    /\ \A t \in Tasks :
         Suspended(t) => /\ lock # Some(t)
                         /\ \A c \in Clients : wlock[c] # Some(t)
    /\ \A c \in Clients : ~ReaderLockHeld(c)

\* The receiver of client c has a location lookup outstanding: the stackTrace
\* request is written and its outcome is not known yet.
LookupOutstanding(c) == rx[c].pc = "lookup"

\* C31: the receiver blocks on nothing but the read of the next frame: while
\* a location lookup is outstanding it is at its read, so the frame that
\* follows the stopped event can be read and dispatched.
C31_ReceiverOnlyBlocksOnRead ==
    \A c \in Clients :
        (LookupOutstanding(c) /\ nread < MaxFrames) => ENABLED R_Read(c)

\* The seqs of the frames written in full for request req on client 1.
SeqsOf(req) ==
    {wire[1][i].seq : i \in {k \in 1 .. Len(wire[1]) :
                               wire[1][k].kind = "body" /\ wire[1][k].command = req}}
\* Every header on client c's transport is followed by the body of the same
\* request, and every body follows its header.
NotInterleaved(c) ==
    \A i \in 1 .. Len(wire[c]) :
        /\ (wire[c][i].kind = "header" /\ i < Len(wire[c]))
              => wire[c][i + 1] = [wire[c][i] EXCEPT !.kind = "body"]
        /\ wire[c][i].kind = "body"
              => i > 1 /\ wire[c][i - 1] = [wire[c][i] EXCEPT !.kind = "header"]

\* C32: continue_debug and evaluate_expression invoked concurrently on a
\* paused session write a continue frame and an evaluate frame whose seqs
\* differ by exactly one, whichever runs first, and whose bytes do not
\* interleave.
C32_ConcurrentSeqsAdjacent ==
    /\ NotInterleaved(1)
    /\ \A a \in SeqsOf("continue") : \A b \in SeqsOf("evaluate") :
         a - b = 1 \/ b - a = 1

\* C33: an output event whose body has a text gives exactly one
\* program-output UI event with that text when its category is stdout,
\* exactly one program-error when it is stderr, and no UI event for another
\* or no category; this in every session state, and the state record and the
\* status counter are left as they were (no debug-status either).
C33_OutputRouted ==
    [][\A c \in Clients :
         (Applied(c) /\ IsEvent(rx'[c].msg, "output") /\ IsSome(rx'[c].msg.body)
             /\ IsSome(Unwrap(rx'[c].msg.body).output))
           => LET b == Unwrap(rx'[c].msg.body)
                  text == Unwrap(b.output)
              IN /\ rx'[c].out =
                       IF b.category = Some("stdout")
                       THEN <<UiEvent("program-output", text)>>
                       ELSE IF b.category = Some("stderr")
                       THEN <<UiEvent("program-error", text)>>
                       ELSE <<>>
                 /\ rx'[c].pc = "dispatch"
                 /\ UNCHANGED <<state, status_seq, client_status_seq, ui>>]_vars

\* Output of every kind has been processed while the session was paused:
\* a stderr text is being dispatched with its program-error event.
C33_Witness ==
    \E c \in Clients :
        /\ rx[c].pc = "dispatch"
        /\ rx[c].msg = EventFrame("output", Some(OutputBody(Some("stderr"), Some("hello"))))
        /\ rx[c].out = <<UiEvent("program-error", "hello")>>
        /\ state.tag = "Paused"

\* The style of the session of client c: launch-style when its launch
\* request went out, attach-style otherwise.
LaunchStyleSession(c) ==
    \E i \in 1 .. Len(wire[c]) : wire[c][i].command = "launch"
\* An expression that already begins with the word expr or expression.
Prefixed(e) == StartsWith(e, ExprWord) \/ StartsWith(e, ExpressionWord)

\* C34: for a launch-style session evaluate_expression sends the expression
\* unchanged when it already begins with expr or expression and with
\* "expr -- " before it otherwise; for an attach-style session it is sent
\* unchanged; and rewriting the rewritten expression changes nothing.
C34_ExpressionRewriting ==
    [][\A t \in Tasks :
         /\ (tk[t].cmd = "evaluate_expression" /\ tk[t].pc = "lock"
                /\ tk'[t].pc = "assign")
              => LET e == tk[t].expr
                     sent == tk'[t].expr
                 IN /\ sent = IF LaunchStyleSession(Unwrap(client)) /\ ~Prefixed(e)
                              THEN ExprPrefix \o e
                              ELSE e
                    /\ RewriteExpression(debugger_type, sent) = sent
         /\ (tk[t].req = "evaluate" /\ tk[t].pc \in {"write", "body"}
                /\ tk'[t].pc # tk[t].pc)
              => LET w == wire'[tk[t].cid]
                 IN w[Len(w)].command = "evaluate" /\ w[Len(w)].expression = tk[t].expr
         /\ (tk[t].cmd = "evaluate_expression" /\ tk[t].pc # "lock"
                /\ tk'[t].pc # "idle")
              => tk'[t].expr = tk[t].expr]_vars

\* A wait_for_event call of task t returns at this step.
EventReturns(t) == tk[t].pc \in {"evwait", "evpoll"} /\ tk'[t].pc = "evret"
\* The receiver of client c files an event frame at this step.
EventFiled(c) ==
    rx[c].pc = "dispatch" /\ rx'[c].pc # "dispatch" /\ rx[c].msg.type = "event"
\* The queues of client c other than that of name n are left as they are.
OtherQueuesKept(c, n) ==
    \A m \in (DOMAIN events[c] \cup DOMAIN events'[c]) \ {n} :
        EventQueue(events'[c], m) = EventQueue(events[c], m)

\* C35 as stated: events are queued per name in arrival order; a call
\* returns the oldest queued event of its name and takes it off the queue,
\* leaving the other queues alone; and it returns None only when no event of
\* its name was queued when the timeout elapsed.
C35_NoneOnlyWithoutEvent ==
    [][/\ \A c \in Clients :
            EventFiled(c) =>
                LET n == Unwrap(rx[c].msg.event)
                IN /\ EventQueue(events'[c], n) =
                          Append(EventQueue(events[c], n), rx[c].msg)
                   /\ OtherQueuesKept(c, n)
       /\ \A t \in Tasks :
            EventReturns(t) =>
                LET c == tk[t].cid
                    n == tk[t].req
                    list == EventQueue(events[c], n)
                IN /\ OtherQueuesKept(c, n)
                   /\ IF tk'[t].res = None
                      THEN ~tk[t].intime
                      ELSE /\ tk'[t].res = Some(Head(list))
                           /\ EventQueue(events'[c], n) = Tail(list)]_vars

\* C35, amended: events are queued per name in arrival order; a poll that
\* finds the queue of its name non-empty returns its first event and takes
\* it off the queue, leaving the other queues alone; and a call returns None
\* only after its timeout has elapsed, and then leaves every queue alone.
C35_WaitForEvent ==
    [][/\ \A c \in Clients :
            EventFiled(c) =>
                LET n == Unwrap(rx[c].msg.event)
                IN /\ EventQueue(events'[c], n) =
                          Append(EventQueue(events[c], n), rx[c].msg)
                   /\ OtherQueuesKept(c, n)
       /\ \A t \in Tasks :
            LET c == tk[t].cid
                n == tk[t].req
                list == EventQueue(events[c], n)
            IN /\ (tk[t].pc = "evpoll" /\ tk'[t].pc # "evpoll" /\ list # <<>>)
                     => /\ tk'[t].pc = "evret"
                        /\ tk'[t].res = Some(Head(list))
               /\ EventReturns(t) =>
                     /\ OtherQueuesKept(c, n)
                     /\ IF tk'[t].res = None
                        THEN tk[t].expired /\ events' = events
                        ELSE /\ tk'[t].res = Some(Head(list))
                             /\ EventQueue(events'[c], n) = Tail(list)]_vars

\* C35's case: a call has returned the older of two different queued events
\* of its name, and the younger one is still queued.
C35_Witness ==
    \E t \in Tasks :
        /\ tk[t].pc = "evret"
        /\ IsSome(tk[t].res)
        /\ EventQueue(events[tk[t].cid], tk[t].req) # <<>>
        /\ Head(EventQueue(events[tk[t].cid], tk[t].req)) # Unwrap(tk[t].res)

\* C36: when terminate_program completes on a session, the client handle of
\* that session is no longer stored and no process handle is stored, so a
\* following adapter command finds no session.
C36_TerminateDestroysSession ==
    [][\A t \in Tasks :
         (tk[t].cmd = "terminate_program" /\ tk[t].cid # 0 /\ Returns(t)
              /\ tk[t].pc = "kill")
             => /\ client' # Some(tk[t].cid)
                /\ process' = None]_vars

\* The receiver of client c is in a pass over a stopped or terminated event:
\* it has applied the event to the state record and not yet read on.
LaterEventApplied(c) ==
    /\ rx[c].pc \in {"fetch", "emit", "dispatch"}
    /\ IsEvent(rx[c].msg, "stopped") \/ IsEvent(rx[c].msg, "terminated")
    /\ state.tag \in {"Paused", "Terminated"}

\* C37: the Running update of configuration_done never overwrites a Paused
\* or Terminated that the receiver wrote for an event that followed the
\* configurationDone response: the state record stays what that event made it.
C37_RunningNeverOverwritesLater ==
    [][\A t \in Tasks :
         (/\ tk[t].cmd = "configuration_done"
          /\ tk[t].pc = "resp" /\ tk'[t].pc # "resp"
          /\ IsSome(tk[t].res)
          /\ LaterEventApplied(tk[t].cid))
             => state' = state]_vars

\* A debug-status reaches the UI at this step.
StatusEmitted == Len(ui') = Len(ui) + 1

\* C38: when a debug-status paused or terminated has just been emitted, the
\* state record is the matching variant: Paused with the threadId the
\* message carries, or Terminated; so it is after terminate_program has
\* emitted terminated.
C38_RecordMatchesStatus ==
    [][StatusEmitted =>
         LET p == ui'[Len(ui')]
         IN /\ p.status = "terminated" => state' = Terminated
            /\ p.status = "paused" =>
                   /\ state'.tag = "Paused"
                   /\ p.threadId = Some(state'.thread_id)]_vars

\* The adapter processes that run, and the receiver loops that run.
LiveProcesses == (1 .. launches) \ killed
LiveReceivers == {c \in Clients : rx[c].pc \notin {"none", "exited"}}

\* C39: once a launch has stored its client and process, no adapter process
\* and no receiver loop of an earlier session is left running.
C39_OneAdapterOneReceiver ==
    \A d \in Clients :
        (client = Some(d) /\ process = Some(d)) =>
            \A c \in 1 .. d - 1 : c \notin LiveProcesses /\ c \notin LiveReceivers

\* State record st shows frame f: the variant a state event stands for, with
\* the thread of a stopped event; a frame that is no state event shows in
\* every record.
Reflected(st, f) ==
    CASE IsEvent(f, "initialized") -> st = Configuring
      [] IsEvent(f, "continued") -> st = Running
      [] IsEvent(f, "terminated") -> st = Terminated
      [] IsEvent(f, "stopped") /\ IsSome(f.body) ->
           /\ st.tag = "Paused"
           /\ st.thread_id = UnwrapOr(Unwrap(f.body).threadId, DefaultThreadId)
      [] OTHER -> TRUE
\* The receiver of client c files its frame in a table at this step, and the
\* frame is in the table it belongs to afterwards.
Filed(c) == rx[c].pc = "dispatch" /\ rx'[c].pc # "dispatch"
InTable(c, f) ==
    CASE f.type = "response" /\ IsSome(f.request_seq) ->
           /\ Unwrap(f.request_seq) \in DOMAIN responses'[c]
           /\ responses'[c][Unwrap(f.request_seq)] = f
      [] f.type = "event" /\ IsSome(f.event) ->
           LET q == EventQueue(events'[c], Unwrap(f.event))
           IN q # <<>> /\ q[Len(q)] = f
      [] OTHER -> TRUE

\* C40: inbound frames take effect in arrival order on the state record and
\* the tables: the receiver applies a frame to the state record before it
\* files the frame in the response table or an event queue, and files it
\* before it reads the next frame; when a wait returns a response, the state
\* record shows the frame the receiver read last; and it still does once
\* the command has taken up the response, which arrived before that frame.
C40_ArrivalOrder ==
    [][/\ \A c \in Clients :
            /\ Applied(c) =>
                   /\ Reflected(state', rx'[c].msg)
                   /\ responses'[c] = responses[c] /\ events'[c] = events[c]
            /\ Filed(c) =>
                   /\ InTable(c, rx[c].msg)
                   /\ state' = state
                   /\ rx'[c].pc = "read"
       /\ \A t \in Tasks :
            (tk[t].pc = "poll" /\ tk'[t].pc = "resp") =>
                LET c == tk[t].cid
                IN /\ tk'[t].res = Some(responses[c][tk[t].seq])
                   /\ rx[c].pc \in {"fetch", "emit", "dispatch"}
                          => Reflected(state, rx[c].msg)
       /\ \A t \in Tasks :
            (/\ tk[t].pc = "resp" /\ tk'[t].pc # "resp"
             /\ IsSome(tk[t].res)
             /\ rx[tk[t].cid].pc \in {"fetch", "emit", "dispatch"})
                => Reflected(state', rx[tk[t].cid].msg)]_vars

====
